---- MODULE Spec2Model ----
(***************************************************************************)
(* A model of the refsw2 CORE renderer (emudev-org/nullDC):                *)
(*   - RenderCORE, the region-array loop and its pass driver               *)
(*     (crates/refsw2-cpp/ffi/refsw_lists.cc)                              *)
(*   - pvr_map32 / vri / pvr_write_area1_32 (crates/refsw2-cpp/ffi/        *)
(*     pvr_mem.h)                                                          *)
(*   - twiddle_slow / InitTexUtils (crates/refsw2-cpp/ffi/TexUtils.cc)     *)
(*   - the RGB565 / ARGB8888 packing of the tile writeback                 *)
(* The tile buffer helpers of refsw_tile.h (ClearBuffers, PeelBuffers, the *)
(* rasterizer table, RenderParamTags) are not part of the sources; where a *)
(* property needs them they are modelled from the specification text.      *)
(***************************************************************************)
EXTENDS Integers, Sequences, FiniteSets, TLC

VARIABLES
    pc,            \* position of RenderCORE in its region loop
    nread,         \* number of region-array entries read so far
    entry,         \* RegionArrayEntry entry (the local of RenderCORE)
    regs,          \* the register fields RenderCORE reads (emu_regs)
    log,           \* calls made for the current region entry, in order
    more_to_draw,  \* the flag behind ClearMoreToDraw / GetMoreToDraw
    peel_n,        \* traversals of the running peel loop that drew pixels
    written,       \* entries whose writeback wrote their tile to VRAM
    nowrite,       \* entries read with no_writeout = 1
    ret,           \* what the caller of ffi_refsw2_render has received
    mq,            \* pvr_map32 under test: offsets and results
    dq,            \* RGB565 packing under test
    tq,            \* detwiddle tables and lookups under test
    rq,            \* 8888 write / read-back under test
    aq,            \* the region array in VRAM and the entries read from it
    oq,            \* an object list in VRAM and the position of RenderObjectList in it
    tile           \* tile buffers of one translucent auto-sort peel

coreVars == <<pc, nread, entry, regs, log, more_to_draw, peel_n, written,
              nowrite, ret>>
fnVars == <<mq, dq, tq, rq, aq, oq>>
vars == <<coreVars, fnVars, tile>>

(***************************************************************************)
(* Bounds of the model                                                     *)
(***************************************************************************)
MaxEntries == 2         \* region entries read in one frame (Spec)
MaxPeel == 2            \* drawing traversals of one peel loop
MaxRegionEntries == 1026 \* region entries read in one frame (SpecRegion)
MaxArrayEntries == 2    \* region entries laid out in VRAM (SpecArray)

Idle == [st |-> "idle"]

(***************************************************************************)
(* Register file: the fields read by RenderCORE and ReadRegionArrayEntry   *)
(***************************************************************************)
Scaler(h, i, v) == [hscale |-> h, interlace |-> i, vscalefactor |-> v]

\* SCALER_CTL and FB_W_CTRL.fb_packmode: the supported values and one
\* unsupported value of each field the writeback asserts on
ConfigDomain ==
    { [SCALER_CTL |-> Scaler(0, 0, 1024), fb_packmode |-> 1],
      [SCALER_CTL |-> Scaler(0, 0, 1025), fb_packmode |-> 6],
      [SCALER_CTL |-> Scaler(0, 0, 2048), fb_packmode |-> 1],
      [SCALER_CTL |-> Scaler(1, 0, 1024), fb_packmode |-> 6],
      [SCALER_CTL |-> Scaler(0, 1, 1024), fb_packmode |-> 1],
      [SCALER_CTL |-> Scaler(0, 0, 1026), fb_packmode |-> 6],
      [SCALER_CTL |-> Scaler(0, 0, 1024), fb_packmode |-> 3] }

\* FPU_PARAM_CFG.region_header_type and ISP_FEED_CFG.pre_sort
HeaderDomain ==
    { [region_header_type |-> 0, feed_pre_sort |-> 0],
      [region_header_type |-> 0, feed_pre_sort |-> 1],
      [region_header_type |-> 1, feed_pre_sort |-> 0] }

Regs(c, h) ==
    [SCALER_CTL |-> c.SCALER_CTL, fb_packmode |-> c.fb_packmode,
     region_header_type |-> h.region_header_type,
     feed_pre_sort |-> h.feed_pre_sort]

RegDomain == { Regs(c, h) : c \in ConfigDomain, h \in HeaderDomain }

\* one supported and one unsupported configuration, every header format
PassRegDomain ==
    { Regs(c, h) : c \in { d \in ConfigDomain : d.SCALER_CTL.vscalefactor = 1025
                                                  \/ d.fb_packmode = 3 },
                   h \in HeaderDomain }

\* refsw_lists.cc:485-491, the four asserts of the writeback
ConfigAsserts_NoPackmode(r) ==
    /\ r.SCALER_CTL.hscale = 0
    /\ r.SCALER_CTL.interlace = 0
    /\ r.SCALER_CTL.vscalefactor \in {1025, 1024, 2048}

ConfigAsserts(r) ==
    /\ r.SCALER_CTL.hscale = 0
    /\ r.SCALER_CTL.interlace = 0
    /\ r.SCALER_CTL.vscalefactor \in {1025, 1024, 2048}
    /\ r.fb_packmode \in {1, 6}

(***************************************************************************)
(* Region array entries                                                    *)
(***************************************************************************)
ControlDomain ==
    [no_writeout : {0, 1}, pre_sort : {0, 1}, z_keep : {0, 1}, last_region : {0, 1}]

ListPointerDomain == [empty : {0, 1}]

\* the five list pointer words of an entry
ListsDomain ==
    [opaque : ListPointerDomain, opaque_mod : ListPointerDomain,
     trans : ListPointerDomain, trans_mod : ListPointerDomain,
     puncht : ListPointerDomain]

EmptyList == [empty |-> 1]

NoEntry ==
    [control |-> [no_writeout |-> 0, pre_sort |-> 0, z_keep |-> 0, last_region |-> 0],
     opaque |-> EmptyList, opaque_mod |-> EmptyList, trans |-> EmptyList,
     trans_mod |-> EmptyList, puncht |-> EmptyList]

\* refsw_lists.cc:116-141; w0 is the control word at base, w the list
\* pointer words at base+4 .. base+20
ReadRegionArrayEntry(r, w0, w) ==
    LET fmt_v1 == r.region_header_type = 0
    IN  [entry |-> [control |-> IF fmt_v1
                                  THEN [w0 EXCEPT !.pre_sort = r.feed_pre_sort]
                                  ELSE w0,
                    opaque |-> w.opaque, opaque_mod |-> w.opaque_mod,
                    trans |-> w.trans, trans_mod |-> w.trans_mod,
                    puncht |-> IF fmt_v1 THEN EmptyList ELSE w.puncht],
         step |-> IF fmt_v1 THEN 5 * 4 ELSE 6 * 4]

(***************************************************************************)
(* The call log                                                            *)
(***************************************************************************)
Call(op) == [op |-> op, mode |-> "-", list |-> "-"]
Traverse(mode, list) == [op |-> "RenderObjectList", mode |-> mode, list |-> list]
Tags(mode) == [op |-> "RenderParamTags", mode |-> mode, list |-> "-"]

\* the blocks of the loop body of RenderCORE in source order
\* (refsw_lists.cc:336, 347, 360, 364, 410, 466, 535)
PcAfter_TagsLate(p) ==
    CASE p = "clear" -> "opaq"
      [] p = "opaq" -> "pt"
      [] p = "pt" -> "op_params"
      [] p = "op_params" -> "tr"
      [] p = "tr" -> "writeback"
      [] p = "writeback" -> "loop"

PcAfter(p) ==
    CASE p = "clear" -> "opaq"
      [] p = "opaq" -> "op_params"
      [] p = "op_params" -> "pt"
      [] p = "pt" -> "tr"
      [] p = "tr" -> "writeback"
      [] p = "writeback" -> "loop"

\* a drawing traversal is possible while the peel bound is not reached
Draws == IF peel_n < MaxPeel THEN {0, 1} ELSE {0}

\* localized errors a list traversal can meet (refsw_lists.cc:289-290 prints
\* and goes on; pvr_map32 masks addresses; a degenerate triangle is skipped)
LocalErrors == {"none", "unknown_object_type", "address_out_of_range", "degenerate_triangle"}

\* refsw_lists.cc:265-293: no case of the traversal ends the frame
TraversalStops(err) == FALSE

\* the ways a list traversal can leave the frame: stopped or not
Stops == { TraversalStops(err) : err \in LocalErrors }

(***************************************************************************)
(* Bit operations on unsigned words                                        *)
(***************************************************************************)
RECURSIVE BitAnd(_, _)
BitAnd(a, b) ==
    IF a = 0 \/ b = 0 THEN 0
    ELSE (a % 2) * (b % 2) + 2 * BitAnd(a \div 2, b \div 2)

RECURSIVE BitOr(_, _)
BitOr(a, b) ==
    IF a = 0 THEN b
    ELSE IF b = 0 THEN a
    ELSE (IF a % 2 = 1 \/ b % 2 = 1 THEN 1 ELSE 0) + 2 * BitOr(a \div 2, b \div 2)

\* a & ~b
BitAndNot(a, b) == a - BitAnd(a, b)

Pow2(n) == 2 ^ n

\* RenderCORE is not running in the specifications of the pure functions
IdleCore ==
    /\ pc = "idle"
    /\ nread = 0
    /\ entry = NoEntry
    /\ regs = Regs([SCALER_CTL |-> Scaler(0, 0, 1024), fb_packmode |-> 6],
                   [region_header_type |-> 1, feed_pre_sort |-> 0])
    /\ log = <<>>
    /\ more_to_draw = 0
    /\ peel_n = 0
    /\ written = {}
    /\ nowrite = {}
    /\ ret = "none"

(***************************************************************************)
(* pvr_mem.h: the bank interleaving address map                            *)
(***************************************************************************)
VRAM_SIZE == 8 * 1024 * 1024
VRAM_MASK == VRAM_SIZE - 1
VRAM_BANK_BIT == 4194304

pvr_map32_NoShift(offset32) ==
    LET static_bits == BitOr(VRAM_MASK - (VRAM_BANK_BIT * 2 - 1), 3)
        offset_bits == BitAndNot(VRAM_BANK_BIT - 1, 3)
        bank == BitAnd(offset32, VRAM_BANK_BIT) \div VRAM_BANK_BIT
    IN  BitOr(BitOr(BitAnd(offset32, static_bits), BitAnd(offset32, offset_bits)),
              bank * 4)

pvr_map32_NoBank(offset32) ==
    LET static_bits == BitOr(VRAM_MASK - (VRAM_BANK_BIT * 2 - 1), 3)
        offset_bits == BitAndNot(VRAM_BANK_BIT - 1, 3)
    IN  BitOr(BitAnd(offset32, static_bits),
              BitAnd(offset32, offset_bits) * 2)

\* pvr_mem.h:16-32
pvr_map32(offset32) ==
    LET static_bits == BitOr(VRAM_MASK - (VRAM_BANK_BIT * 2 - 1), 3)
        offset_bits == BitAndNot(VRAM_BANK_BIT - 1, 3)
        bank == BitAnd(offset32, VRAM_BANK_BIT) \div VRAM_BANK_BIT
    IN  BitOr(BitOr(BitAnd(offset32, static_bits),
                    BitAnd(offset32, offset_bits) * 2),
              bank * 4)

\* the offsets given to pvr_map32: 4-byte aligned, below 8 MiB, with every
\* value of the lowest MapLowBits and the highest MapHighBits word-address
\* bits and of the bank bit, and the complements of these within 8 MiB
MapLowBits == 2
MapHighBits == 2

MapOffsets ==
    LET S == { lo * 4 + hi * Pow2(22 - MapHighBits) + bank * VRAM_BANK_BIT :
                 lo \in 0..(Pow2(MapLowBits) - 1),
                 hi \in 0..(Pow2(MapHighBits) - 1), bank \in 0..1 }
    IN  S \cup { VRAM_MASK - 3 - o : o \in S }

InitMap ==
    /\ IdleCore
    /\ mq \in { [st |-> "in", o1 |-> a, o2 |-> b, r1 |-> 0, r2 |-> 0, rr1 |-> 0] :
                  a \in MapOffsets, b \in MapOffsets }
    /\ dq = Idle /\ tq = Idle /\ rq = Idle /\ aq = Idle /\ oq = Idle /\ tile = Idle

\* both offsets are mapped, and the first result is mapped again
MapApply ==
    /\ mq.st = "in"
    /\ mq' = [mq EXCEPT !.st = "out",
                        !.r1 = pvr_map32(mq.o1),
                        !.r2 = pvr_map32(mq.o2),
                        !.rr1 = pvr_map32(pvr_map32(mq.o1))]
    /\ UNCHANGED <<coreVars, dq, tq, rq, aq, oq, tile>>

NextMap == MapApply

SpecMap == InitMap /\ [][NextMap]_vars

(***************************************************************************)
(* refsw_lists.cc:469-523: RGB565 packing of one accumulator pixel         *)
(***************************************************************************)
\* refsw_lists.cc:470-475
bayerBias ==
    << <<  8, 136,  40, 168>>,
       <<200,  72, 232, 104>>,
       << 56, 184,  24, 152>>,
       <<248, 120, 216,  88>> >>

Quantize_Rounded(c8, levels, T) == (c8 * levels + T + 127) \div 255

\* refsw_lists.cc:512-514; the operands are not negative
Quantize(c8, levels, T) == (c8 * levels + T) \div 255

\* refsw_lists.cc:517-519
Clamp(v, hi) == IF v < 0 THEN 0 ELSE IF v > hi THEN hi ELSE v

\* refsw_lists.cc:505-522; src = <<r, g, b, a>> with every channel value
\* from 0 to MaxByte (green and blue equal to red or to its complement);
\* pixel is the uint16_t
\* handed to pvr_write_area1_16
Pack565(src, x, y) ==
    LET T == bayerBias[(y % 4) + 1][(x % 4) + 1]
        r5 == Quantize(src[1], 31, T)
        g6 == Quantize(src[2], 63, T)
        b5 == Quantize(src[3], 31, T)
    IN  [raw |-> <<r5, g6, b5>>,
         pixel |-> BitOr(BitOr(Clamp(r5, 31), Clamp(g6, 63) * 32),
                         Clamp(b5, 31) * 2048) % 65536]

DitherMaxXY == 3
MaxByte == 255

InitDither ==
    /\ IdleCore
    /\ dq \in { [st |-> "in", x |-> x, y |-> y,
                 src |-> <<r, IF g = 0 THEN r ELSE MaxByte - r,
                           IF b = 0 THEN r ELSE MaxByte - r, MaxByte>>,
                 raw |-> <<0, 0, 0>>, pixel |-> 0] :
                  x \in 0..DitherMaxXY, y \in 0..DitherMaxXY,
                  r \in 0..MaxByte, g \in {0, 1}, b \in {0, 1} }
    /\ mq = Idle /\ tq = Idle /\ rq = Idle /\ aq = Idle /\ oq = Idle /\ tile = Idle

WritePixel565 ==
    /\ dq.st = "in"
    /\ LET p == Pack565(dq.src, dq.x, dq.y)
       IN  dq' = [dq EXCEPT !.st = "out", !.raw = p.raw, !.pixel = p.pixel]
    /\ UNCHANGED <<coreVars, mq, tq, rq, aq, oq, tile>>

NextDither == WritePixel565

SpecDither == InitDither /\ [][NextDither]_vars

(***************************************************************************)
(* TexUtils.cc: twiddle_slow and the detwiddle tables                      *)
(***************************************************************************)
RECURSIVE TwLoop(_, _, _, _, _, _)
\* TexUtils.cc:18-38, the while loop
TwLoop(x, y, x_sz, y_sz, sh, rv) ==
    IF x_sz = 0 /\ y_sz = 0 THEN rv
    ELSE LET ys == y_sz # 0
             rv1 == IF ys THEN BitOr(rv, (y % 2) * Pow2(sh)) ELSE rv
             y_sz1 == IF ys THEN y_sz \div 2 ELSE y_sz
             y1 == IF ys THEN y \div 2 ELSE y
             sh1 == IF ys THEN sh + 1 ELSE sh
             xs == x_sz # 0
             rv2 == IF xs THEN BitOr(rv1, (x % 2) * Pow2(sh1)) ELSE rv1
             x_sz1 == IF xs THEN x_sz \div 2 ELSE x_sz
             x1 == IF xs THEN x \div 2 ELSE x
             sh2 == IF xs THEN sh1 + 1 ELSE sh1
         IN  TwLoop(x1, y1, x_sz1, y_sz1, sh2, rv2)

\* TexUtils.cc:10-40
twiddle_slow(x, y, x_sz, y_sz) == TwLoop(x, y, x_sz \div 2, y_sz \div 2, 0, 0)

TwTables == 11
TwSize == 1024

DetwiddleEntry_BothX(t, s, i) ==
    LET x_sz == TwSize
        y_sz == Pow2(s)
    IN  IF t = 0 THEN twiddle_slow(i, 0, x_sz, y_sz)
        ELSE twiddle_slow(i, 0, y_sz, x_sz)

\* TexUtils.cc:50-55: the value InitTexUtils stores in detwiddle[t][s][i]
DetwiddleEntry(t, s, i) ==
    LET x_sz == TwSize
        y_sz == Pow2(s)
    IN  IF t = 0 THEN twiddle_slow(i, 0, x_sz, y_sz)
        ELSE twiddle_slow(0, i, y_sz, x_sz)

\* the table indices kept in the model: the lowest and the highest ones,
\* the powers of two and their predecessors
TwLow == 3

TwIndices ==
    (0..TwLow) \cup ((TwSize - 1 - TwLow)..(TwSize - 1))
      \cup { Pow2(k) : k \in 0..9 } \cup { Pow2(k) - 1 : k \in 1..10 }

\* the indices at which the tables are kept: TwIndices and every index of
\* the textures of up to TwFull texels a side
TwFull == 16

TwTableIndices == TwIndices \cup (0..(TwFull - 1))

InitTwiddle ==
    /\ IdleCore
    /\ tq = [st |-> "uninit", detwiddle |-> <<>>, s |-> 0, i |-> 0, j |-> 0,
             sum |-> 0, slow |-> 0]
    /\ mq = Idle /\ dq = Idle /\ rq = Idle /\ aq = Idle /\ oq = Idle /\ tile = Idle

\* TexUtils.cc:46-57 (the bump map tables are left out)
InitTexUtils ==
    /\ tq.st = "uninit"
    /\ tq' = [tq EXCEPT !.st = "ready",
                !.detwiddle = [t \in 0..1 |-> [s \in 0..(TwTables - 1) |->
                                 [i \in TwTableIndices |-> DetwiddleEntry(t, s, i)]]]]
    /\ UNCHANGED <<coreVars, mq, dq, rq, aq, oq, tile>>

\* a lookup of a texel of a square texture of side 1 << s, and the same
\* texel through twiddle_slow
TwiddleLookup ==
    /\ tq.st = "ready"
    /\ \E s \in 0..(TwTables - 1) :
         \E i \in { k \in TwIndices : k < Pow2(s) }, j \in { k \in TwIndices : k < Pow2(s) } :
            tq' = [tq EXCEPT !.st = "looked", !.s = s, !.i = i, !.j = j,
                     !.sum = tq.detwiddle[0][s][i] + tq.detwiddle[1][s][j],
                     !.slow = twiddle_slow(i, j, Pow2(s), Pow2(s))]
    /\ UNCHANGED <<coreVars, mq, dq, rq, aq, oq, tile>>

twop_Swapped(detwiddle, x, y, bcx, bcy) ==
    <<detwiddle[0][bcx + 3][x], detwiddle[1][bcy + 3][y]>>

\* TexUtils.h:51: the two table terms of twop(x, y, bcx, bcy)
twop(detwiddle, x, y, bcx, bcy) ==
    <<detwiddle[0][bcy + 3][x], detwiddle[1][bcx + 3][y]>>

\* a texel of a texture of 8 << bcx by 8 << bcy texels through twop, and the
\* same texel through twiddle_slow
TwopLookup ==
    /\ tq.st = "ready"
    /\ \E bcx \in 0..7, bcy \in 0..7 :
         \E x \in { k \in TwTableIndices : k < 8 * Pow2(bcx) },
            y \in { k \in TwTableIndices : k < 8 * Pow2(bcy) } :
            LET t == twop(tq.detwiddle, x, y, bcx, bcy)
            IN  tq' = [st |-> "twop", detwiddle |-> tq.detwiddle,
                       bcx |-> bcx, bcy |-> bcy, x |-> x, y |-> y,
                       terms |-> t, sum |-> t[1] + t[2],
                       slow |-> twiddle_slow(x, y, 8 * Pow2(bcx), 8 * Pow2(bcy))]
    /\ UNCHANGED <<coreVars, mq, dq, rq, aq, oq, tile>>

NextTwiddle == InitTexUtils \/ TwiddleLookup \/ TwopLookup

SpecTwiddle == InitTwiddle /\ [][NextTwiddle]_vars

(***************************************************************************)
(* The 8888 writeback of one pixel and its read-back.  TLC integers are    *)
(* 32-bit signed, so a uint32_t word is kept as its two 16-bit halves.     *)
(***************************************************************************)
Word(lo, hi) == [lo |-> lo, hi |-> hi]

\* the bytes of a word in memory order (little-endian store)
WordBytes(w) == <<w.lo % 256, w.lo \div 256, w.hi % 256, w.hi \div 256>>

\* refsw_lists.cc:525; src = <<r, g, b, a>>
Pack8888(src) == Word(src[1] + src[2] * 256, src[3] + src[4] * 256)

\* a VRAM byte: vram holds the bytes written, bg is the content before
VramByte(vram, bg, k) == IF k \in DOMAIN vram THEN vram[k] ELSE bg

pvr_write_area1_32_Vaddr(vram, addr, data) ==
    LET p == BitAnd(addr, VRAM_MASK)
    IN  [k \in DOMAIN vram \cup (p..(p + 3)) |->
            IF k \in p..(p + 3) THEN WordBytes(data)[k - p + 1] ELSE vram[k]]

\* pvr_mem.h:49-55
pvr_write_area1_32(vram, addr, data) ==
    LET p == pvr_map32(addr)
    IN  [k \in DOMAIN vram \cup (p..(p + 3)) |->
            IF k \in p..(p + 3) THEN WordBytes(data)[k - p + 1] ELSE vram[k]]

\* pvr_mem.h:37-40
vri(vram, bg, addr) ==
    LET p == pvr_map32(addr)
    IN  Word(VramByte(vram, bg, p) + 256 * VramByte(vram, bg, p + 1),
             VramByte(vram, bg, p + 2) + 256 * VramByte(vram, bg, p + 3))

\* TexUtils.h:28
ARGB8888_32(word) == word

ByteSamples == {0, 1, 128, 255}

\* aligned addresses around the bank boundary, below and above 8 MiB
RtAddrs ==
    { o + k * VRAM_SIZE :
        o \in {0, 4, 8, VRAM_BANK_BIT - 4, VRAM_BANK_BIT, VRAM_BANK_BIT + 4,
               VRAM_MASK - 3},
        k \in {0, 1, 255} }

InitRoundTrip ==
    /\ IdleCore
    /\ rq \in { [st |-> "in", src |-> <<r, g, b, a>>, addr |-> ad, bg |-> bg,
                 vram |-> <<>>, pixel |-> Word(0, 0), rd |-> Word(0, 0)] :
                  r \in ByteSamples, g \in ByteSamples, b \in ByteSamples,
                  a \in ByteSamples, ad \in RtAddrs, bg \in {0, 255} }
    /\ mq = Idle /\ dq = Idle /\ tq = Idle /\ aq = Idle /\ oq = Idle /\ tile = Idle

\* refsw_lists.cc:524-527
WritePixel8888 ==
    /\ rq.st = "in"
    /\ LET pixel == Pack8888(rq.src)
       IN  rq' = [rq EXCEPT !.st = "written", !.pixel = pixel,
                    !.vram = pvr_write_area1_32(rq.vram, rq.addr, pixel)]
    /\ UNCHANGED <<coreVars, mq, dq, tq, aq, oq, tile>>

\* the word is read back at the same address and unpacked
ReadBack8888 ==
    /\ rq.st = "written"
    /\ rq' = [rq EXCEPT !.st = "read",
                !.rd = ARGB8888_32(vri(rq.vram, rq.bg, rq.addr))]
    /\ UNCHANGED <<coreVars, mq, dq, tq, aq, oq, tile>>

NextRoundTrip == WritePixel8888 \/ ReadBack8888

SpecRoundTrip == InitRoundTrip /\ [][NextRoundTrip]_vars

(***************************************************************************)
(* The region array in VRAM: ReadRegionArrayEntry over the words of VRAM   *)
(* and the walk of RenderCORE over the array.  Bit 29 of a word is bit 13  *)
(* of its high half, bit 31 is bit 15.                                     *)
(***************************************************************************)
\* refsw_lists_regtypes.h:10-22: the fields of the control word
RegionArrayEntryControl(w) ==
    [tilex |-> (w.lo \div 4) % 64, tiley |-> (w.lo \div 256) % 64,
     no_writeout |-> (w.hi \div 4096) % 2, pre_sort |-> (w.hi \div 8192) % 2,
     z_keep |-> (w.hi \div 16384) % 2, last_region |-> w.hi \div 32768]

\* refsw_lists.cc:131: the store into the bit field control.pre_sort
SetPreSort(w, v) == Word(w.lo, w.hi - ((w.hi \div 8192) % 2) * 8192 + v * 8192)

ReadRegionArrayEntryAt_ReadsPuncht(r, vram, bg, base) ==
    LET fmt_v1 == r.region_header_type = 0
        control == vri(vram, bg, base)
    IN  [entry |-> [control |-> IF fmt_v1 THEN SetPreSort(control, r.feed_pre_sort)
                                  ELSE control,
                    opaque |-> vri(vram, bg, base + 4),
                    opaque_mod |-> vri(vram, bg, base + 8),
                    trans |-> vri(vram, bg, base + 12),
                    trans_mod |-> vri(vram, bg, base + 16),
                    puncht |-> vri(vram, bg, base + 20)],
         rv |-> IF fmt_v1 THEN 5 * 4 ELSE 6 * 4]

\* refsw_lists.cc:116-141 over the words of VRAM; the value is the entry
\* (the .full of each member) and the step returned
ReadRegionArrayEntryAt(r, vram, bg, base) ==
    LET fmt_v1 == r.region_header_type = 0
        control == vri(vram, bg, base)
    IN  [entry |-> [control |-> IF fmt_v1 THEN SetPreSort(control, r.feed_pre_sort)
                                  ELSE control,
                    opaque |-> vri(vram, bg, base + 4),
                    opaque_mod |-> vri(vram, bg, base + 8),
                    trans |-> vri(vram, bg, base + 12),
                    trans_mod |-> vri(vram, bg, base + 16),
                    puncht |-> IF fmt_v1 THEN Word(0, 32768)
                                 ELSE vri(vram, bg, base + 20)],
         rv |-> IF fmt_v1 THEN 5 * 4 ELSE 6 * 4]

\* words of VRAM the array can take: room for MaxArrayEntries 6-word entries
ArrayWords == 6 * MaxArrayEntries

\* the word positions that are a control word in either format or the sixth
\* word of the 6-word format
ArrayVaried == { k \in 0..(ArrayWords - 1) : k % 5 = 0 \/ k % 6 \in {0, 5} }

\* the high halves tried at those positions: nothing set, bit 29, bit 31
\* (bit 29 only where a control word can be)
ArrayHighs(k) == IF k % 5 = 0 \/ k % 6 = 0 THEN {0, 8192, 32768} ELSE {0, 32768}

\* REGION_BASE: the array straddles the bank boundary
RegionBases == {VRAM_BANK_BIT - 8}

\* VRAM after the words ws are stored from address base on
RECURSIVE StoreWords(_, _, _, _)
StoreWords(vram, base, ws, k) ==
    IF k >= ArrayWords THEN vram
    ELSE StoreWords(pvr_write_area1_32(vram, base + 4 * k, ws[k]), base, ws, k + 1)

ArrayContents ==
    { [k \in 0..(ArrayWords - 1) |->
          Word(4 * (k + 1), IF k \in ArrayVaried THEN h[k] ELSE 0)] :
        h \in { g \in [ArrayVaried -> {0, 8192, 32768}] :
                   \A k \in ArrayVaried : g[k] \in ArrayHighs(k) } }

InitArray ==
    /\ pc = "idle"
    /\ nread = 0
    /\ entry = NoEntry
    /\ regs \in { Regs([SCALER_CTL |-> Scaler(0, 0, 1024), fb_packmode |-> 6], h) :
                    h \in HeaderDomain }
    /\ log = <<>>
    /\ more_to_draw = 0
    /\ peel_n = 0
    /\ written = {}
    /\ nowrite = {}
    /\ ret = "none"
    /\ aq \in { [st |-> "read", REGION_BASE |-> b, base |-> b, bg |-> 0,
                 vram |-> StoreWords(<<>>, b, ws, 0), reads |-> <<>>] :
                  b \in RegionBases, ws \in ArrayContents }
    /\ mq = Idle /\ dq = Idle /\ tq = Idle /\ rq = Idle /\ oq = Idle /\ tile = Idle

\* refsw_lists.cc:316-319, 535: read the entry at base, advance base by the
\* step, leave the loop after the entry with last_region set
ArrayRead ==
    /\ aq.st = "read"
    /\ Len(aq.reads) < MaxArrayEntries
    /\ LET rd == ReadRegionArrayEntryAt(regs, aq.vram, aq.bg, aq.base)
       IN  aq' = [aq EXCEPT !.reads = Append(@, [base |-> aq.base,
                                                 entry |-> rd.entry,
                                                 step |-> rd.rv]),
                            !.base = aq.base + rd.rv,
                            !.st = IF RegionArrayEntryControl(rd.entry.control).last_region = 1
                                     THEN "done" ELSE "read"]
    /\ UNCHANGED <<coreVars, mq, dq, tq, rq, oq, tile>>

NextArray == ArrayRead

SpecArray == InitArray /\ [][NextArray]_vars

(***************************************************************************)
(* RenderObjectList over an object list in VRAM.  Bits 29..31 of a word    *)
(* are bits 13..15 of its high half, bit 28 is bit 12; the 22-bit word     *)
(* pointer of a link lies in bits 2..23.                                   *)
(***************************************************************************)
MaxObjWords == 3        \* words of the object list laid out in VRAM

\* refsw_lists_regtypes.h:63-88: the fields of ObjectListEntry that
\* RenderObjectList reads
ObjectListEntry(w) ==
    [is_not_triangle_strip |-> w.hi \div 32768,
     type |-> w.hi \div 8192,
     end_of_list |-> (w.hi \div 4096) % 2,
     next_block_ptr_in_words |-> (w.lo \div 4) + (w.hi % 256) * 16384]

RenderObjectListStep_LinkFallsThrough(vram, bg, base) ==
    LET obj == ObjectListEntry(vri(vram, bg, base))
        next == base + 4
    IN  IF obj.is_not_triangle_strip = 0
          THEN [call |-> "RenderTriangleStrip", ret |-> FALSE, base |-> next]
        ELSE IF obj.type = 7
          THEN [call |-> "none", ret |-> obj.end_of_list = 1, base |-> next]
        ELSE IF obj.type = 4
          THEN [call |-> "RenderTriangleArray", ret |-> FALSE, base |-> next]
        ELSE IF obj.type = 5
          THEN [call |-> "RenderQuadArray", ret |-> FALSE, base |-> next]
        ELSE [call |-> "printf", ret |-> FALSE, base |-> next]

RenderObjectListStep_UnknownReturns(vram, bg, base) ==
    LET obj == ObjectListEntry(vri(vram, bg, base))
        next == base + 4
    IN  IF obj.is_not_triangle_strip = 0
          THEN [call |-> "RenderTriangleStrip", ret |-> FALSE, base |-> next]
        ELSE IF obj.type = 7
          THEN IF obj.end_of_list = 1
                 THEN [call |-> "none", ret |-> TRUE, base |-> next]
                 ELSE [call |-> "none", ret |-> FALSE,
                       base |-> obj.next_block_ptr_in_words * 4]
        ELSE IF obj.type = 4
          THEN [call |-> "RenderTriangleArray", ret |-> FALSE, base |-> next]
        ELSE IF obj.type = 5
          THEN [call |-> "RenderQuadArray", ret |-> FALSE, base |-> next]
        ELSE [call |-> "printf", ret |-> TRUE, base |-> next]

\* refsw_lists.cc:265-292: one pass of the for (;;) of RenderObjectList: the
\* call it makes, whether it returns, and the base it leaves
RenderObjectListStep(vram, bg, base) ==
    LET obj == ObjectListEntry(vri(vram, bg, base))
        next == base + 4
    IN  IF obj.is_not_triangle_strip = 0
          THEN [call |-> "RenderTriangleStrip", ret |-> FALSE, base |-> next]
        ELSE IF obj.type = 7
          THEN IF obj.end_of_list = 1
                 THEN [call |-> "none", ret |-> TRUE, base |-> next]
                 ELSE [call |-> "none", ret |-> FALSE,
                       base |-> obj.next_block_ptr_in_words * 4]
        ELSE IF obj.type = 4
          THEN [call |-> "RenderTriangleArray", ret |-> FALSE, base |-> next]
        ELSE IF obj.type = 5
          THEN [call |-> "RenderQuadArray", ret |-> FALSE, base |-> next]
        ELSE [call |-> "printf", ret |-> FALSE, base |-> next]

\* the list pointer handed to RenderObjectList: the list straddles the bank
\* boundary
ObjListBase == VRAM_BANK_BIT - 4

ObjAddrs == { ObjListBase + 4 * k : k \in 0..(MaxObjWords - 1) }

\* a link word to address a, with the pad bits (0..1 and 24..27) set
LinkWord(a, eol) ==
    Word((a % 65536) + 3, 57344 + eol * 4096 + 3840 + (a \div 65536))

\* the words tried in the list: a strip, a triangle array, a quad array, an
\* entry of type 0b110, the end link and a link to every word of the list
ObjWords ==
    {Word(0, 0), Word(0, 32768), Word(0, 40960), Word(0, 49152),
     LinkWord(0, 1)} \cup { LinkWord(a, 0) : a \in ObjAddrs }

ObjLinks == {LinkWord(0, 1)} \cup { LinkWord(a, 0) : a \in ObjAddrs }

\* the lists tried: the last word is a link, so the walk stays in the list
ObjLists ==
    { ws \in [0..(MaxObjWords - 1) -> ObjWords] : ws[MaxObjWords - 1] \in ObjLinks }

RECURSIVE StoreObjWords(_, _, _)
StoreObjWords(vram, ws, k) ==
    IF k >= MaxObjWords THEN vram
    ELSE StoreObjWords(pvr_write_area1_32(vram, ObjListBase + 4 * k, ws[k]), ws, k + 1)

InitObjList ==
    /\ pc = "idle"
    /\ nread = 0
    /\ entry = NoEntry
    /\ regs \in { Regs([SCALER_CTL |-> Scaler(0, 0, 1024), fb_packmode |-> 6], h) :
                    h \in HeaderDomain }
    /\ log = <<>>
    /\ more_to_draw = 0
    /\ peel_n = 0
    /\ written = {}
    /\ nowrite = {}
    /\ ret = "none"
    /\ oq \in { [st |-> "walk", vram |-> StoreObjWords(<<>>, ws, 0), bg |-> 0,
                 base |-> ObjListBase, last |-> Idle, seen |-> {},
                 rendered |-> {}, revisit |-> FALSE] : ws \in ObjLists }
    /\ mq = Idle /\ dq = Idle /\ tq = Idle /\ rq = Idle /\ aq = Idle /\ tile = Idle

\* the calls of RenderObjectList that render primitives
RenderCalls == {"RenderTriangleStrip", "RenderTriangleArray", "RenderQuadArray"}

\* refsw_lists.cc:261-294: one pass of the loop; last keeps the address read
\* and what was done with it, seen the addresses read so far, rendered the
\* addresses of the entries handed to a Render* function
ObjectListRead ==
    /\ oq.st = "walk"
    /\ LET step == RenderObjectListStep(oq.vram, oq.bg, oq.base)
       IN  oq' = [oq EXCEPT !.st = IF step.ret THEN "returned" ELSE "walk",
                            !.base = step.base,
                            !.last = [st |-> "read", addr |-> oq.base,
                                      call |-> step.call],
                            !.seen = @ \cup {oq.base},
                            !.rendered = IF step.call \in RenderCalls
                                           THEN @ \cup {oq.base} ELSE @,
                            !.revisit = @ \/ oq.base \in oq.seen]
    /\ UNCHANGED <<coreVars, mq, dq, tq, rq, aq, tile>>

NextObjList == ObjectListRead

SpecObjList == InitObjList /\ [][NextObjList]_vars

(***************************************************************************)
(* Parameter tags and RenderTriangleStrip.  A tag is a 32-bit word:        *)
(* tag_offset in bits 0..2, param_offs_in_words in bits 3..23, skip in     *)
(* bits 24..26, shadow in bit 27, cache_bypass in bit 28.                  *)
(***************************************************************************)
CoreTagFromDesc_NoBypass(cache_bypass, shadow, skip, param_offs_in_words, tag_offset) ==
    LET po == param_offs_in_words % 2097152
    IN  Word((tag_offset % 8) + (po % 8192) * 8,
             (po \div 8192) + (skip % 8) * 256 + (shadow % 2) * 2048)

\* refsw_lists.cc:152-162 with the bit fields of pvr_regs.h:318-329: a store
\* into a bit field keeps the low bits of the value
CoreTagFromDesc(cache_bypass, shadow, skip, param_offs_in_words, tag_offset) ==
    LET po == param_offs_in_words % 2097152
    IN  Word((tag_offset % 8) + (po % 8192) * 8,
             (po \div 8192) + (skip % 8) * 256 + (shadow % 2) * 2048
               + (cache_bypass % 2) * 4096)

\* pvr_regs.h:318-329: the fields of a tag
TagFields(tag) ==
    [tag_offset |-> tag.lo % 8,
     param_offs_in_words |-> (tag.lo \div 8) + (tag.hi % 256) * 8192,
     skip |-> (tag.hi \div 256) % 8,
     shadow |-> (tag.hi \div 2048) % 2,
     cache_bypass |-> (tag.hi \div 4096) % 2]

\* refsw_lists_regtypes.h:39-45: the fields of a strip entry
ObjectListTstrip(w) ==
    [param_offs_in_words |-> w.lo + (w.hi % 32) * 65536,
     skip |-> (w.hi \div 32) % 8,
     shadow |-> (w.hi \div 256) % 2,
     mask |-> (w.hi \div 512) % 64,
     is_not_triangle_strip |-> w.hi \div 32768]

StripEmits_BitI(mask, i) == (mask \div (2 ^ i)) % 2 = 1

\* refsw_lists.cc:179: obj.tstrip.mask & (1 << (5-i))
StripEmits(mask, i) == (mask \div (2 ^ (5 - i))) % 2 = 1

StripTriangle_SameWinding(obj, cache_bypass, i) ==
    [i |-> i,
     vtx |-> <<i, i + 1, i + 2>>,
     tag |-> CoreTagFromDesc(cache_bypass, obj.shadow, obj.skip,
                             obj.param_offs_in_words, i)]

\* refsw_lists.cc:181-191: the tag and the vertex indices of triangle i
StripTriangle(obj, cache_bypass, i) ==
    LET not_even == i % 2
        even == 1 - not_even
    IN  [i |-> i,
         vtx |-> <<i + not_even, i + even, i + 2>>,
         tag |-> CoreTagFromDesc(cache_bypass, obj.shadow, obj.skip,
                                 obj.param_offs_in_words, i)]

\* a strip entry word
TstripWord(po, skip, shadow, mask) ==
    Word(po % 65536, (po \div 65536) + skip * 32 + shadow * 256 + mask * 512)

\* the parameter offsets tried: the ends of the 21-bit range and values with
\* bits in both halves of the word
ParamOffsets == {0, 1, 65536 + 8192 + 5, 2097151}

StripWords ==
    { TstripWord(po, skip, shadow, mask) :
        po \in ParamOffsets, skip \in {0, 5, 7}, shadow \in {0, 1},
        mask \in 0..63 }

InitStrip ==
    /\ pc = "idle"
    /\ nread = 0
    /\ entry = NoEntry
    /\ regs \in { Regs([SCALER_CTL |-> Scaler(0, 0, 1024), fb_packmode |-> 6], h) :
                    h \in HeaderDomain }
    /\ log = <<>>
    /\ more_to_draw = 0
    /\ peel_n = 0
    /\ written = {}
    /\ nowrite = {}
    /\ ret = "none"
    /\ oq \in { [st |-> "strip", obj |-> w, CacheBypass |-> cb, i |-> 0,
                 emitted |-> <<>>] : w \in StripWords, cb \in {0, 1} }
    /\ mq = Idle /\ dq = Idle /\ tq = Idle /\ rq = Idle /\ aq = Idle /\ tile = Idle

\* refsw_lists.cc:177-193: one pass of the for loop of RenderTriangleStrip;
\* emitted keeps the calls of RenderTriangle in order
StripStep ==
    /\ oq.st = "strip"
    /\ oq.i < 6
    /\ LET obj == ObjectListTstrip(oq.obj)
       IN  oq' = [oq EXCEPT !.i = @ + 1,
                            !.emitted = IF StripEmits(obj.mask, oq.i)
                                          THEN Append(@, StripTriangle(obj, oq.CacheBypass, oq.i))
                                          ELSE @]
    /\ UNCHANGED <<coreVars, mq, dq, tq, rq, aq, tile>>

NextStrip == StripStep

SpecStrip == InitStrip /\ [][NextStrip]_vars

(***************************************************************************)
(* CoreTagFromDesc applied to two descriptions of a primitive              *)
(***************************************************************************)
\* the descriptions tried: the ends of every field's range
TagDescs ==
    [tag_offset : {0, 1, 7}, param_offs_in_words : ParamOffsets,
     skip : {0, 5, 7}, shadow : {0, 1}, cache_bypass : {0, 1}]

TagOf(d) ==
    CoreTagFromDesc(d.cache_bypass, d.shadow, d.skip, d.param_offs_in_words,
                    d.tag_offset)

InitTag ==
    /\ pc = "idle"
    /\ nread = 0
    /\ entry = NoEntry
    /\ regs \in { Regs([SCALER_CTL |-> Scaler(0, 0, 1024), fb_packmode |-> 6], h) :
                    h \in {[region_header_type |-> 0, feed_pre_sort |-> 0]} }
    /\ log = <<>>
    /\ more_to_draw = 0
    /\ peel_n = 0
    /\ written = {}
    /\ nowrite = {}
    /\ ret = "none"
    /\ oq \in { [st |-> "desc", a |-> a, b |-> b] : a \in TagDescs, b \in TagDescs }
    /\ mq = Idle /\ dq = Idle /\ tq = Idle /\ rq = Idle /\ aq = Idle /\ tile = Idle

\* refsw_lists.cc:152-162: the tags of the two descriptions
TagPack ==
    /\ oq.st = "desc"
    /\ oq' = [st |-> "tag", a |-> oq.a, b |-> oq.b,
              ta |-> TagOf(oq.a), tb |-> TagOf(oq.b)]
    /\ UNCHANGED <<coreVars, mq, dq, tq, rq, aq, tile>>

NextTag == TagPack

SpecTag == InitTag /\ [][NextTag]_vars

(***************************************************************************)
(* TexUtils.h: the unpacking of a 16-bit ARGB4444 texel to a 32-bit word   *)
(***************************************************************************)
\* TexUtils.h:26: bits 12..15 of the texel go to bits 28..31, bits 0..3 to
\* bits 4..7, bits 4..7 to bits 12..15 and bits 8..11 to bits 20..23
ARGB4444_32(word) ==
    Word((word % 16) * 16 + ((word \div 16) % 16) * 4096,
         ((word \div 256) % 16) * 16 + ((word \div 4096) % 16) * 4096)

\* every 16-bit texel
Texels == 0..65535

InitTexel ==
    /\ pc = "idle"
    /\ nread = 0
    /\ entry = NoEntry
    /\ regs \in { Regs([SCALER_CTL |-> Scaler(0, 0, 1024), fb_packmode |-> 6], h) :
                    h \in {[region_header_type |-> 0, feed_pre_sort |-> 0]} }
    /\ log = <<>>
    /\ more_to_draw = 0
    /\ peel_n = 0
    /\ written = {}
    /\ nowrite = {}
    /\ ret = "none"
    /\ oq \in { [st |-> "texel", word |-> w] : w \in Texels }
    /\ mq = Idle /\ dq = Idle /\ tq = Idle /\ rq = Idle /\ aq = Idle /\ tile = Idle

\* TexUtils.h:26 applied to the texel
Unpack4444 ==
    /\ oq.st = "texel"
    /\ oq' = [st |-> "unpacked", word |-> oq.word, out |-> ARGB4444_32(oq.word)]
    /\ UNCHANGED <<coreVars, mq, dq, tq, rq, aq, tile>>

NextTexel == Unpack4444

SpecTexel == InitTexel /\ [][NextTexel]_vars

(***************************************************************************)
(* RenderTriangleArray and RenderQuadArray: prims + 1 primitives, each     *)
(* with a parameter block of its own                                       *)
(***************************************************************************)
\* refsw_lists_regtypes.h:47-61: the fields of an array entry (the triangle
\* and the quad array have the same layout, and skip and shadow lie where
\* they lie in a strip entry)
ObjectListTarray(w) ==
    [param_offs_in_words |-> w.lo + (w.hi % 32) * 65536,
     skip |-> (w.hi \div 32) % 8,
     shadow |-> (w.hi \div 256) % 2,
     prims |-> (w.hi \div 512) % 16,
     type |-> w.hi \div 8192]

\* the words of a vertex, by skip and two-volume mode
VertexWords(skip, two_volumes) == 3 + skip * (IF two_volumes THEN 2 ELSE 1)

\* the words of a parameter block of n vertices: ISP/TSP, TSP and TCW words,
\* TSP2 and TCW2 in two-volume mode, then the vertices
BlockWords(skip, two_volumes, n) ==
    3 + (IF two_volumes THEN 2 ELSE 0) + n * VertexWords(skip, two_volumes)

\* the read pointer decode_pvr_vertices returns
decode_pvr_vertices(base, skip, two_volumes, n) ==
    base + 4 * BlockWords(skip, two_volumes, n)

\* refsw_lists.cc:170, 201, 232
ParamBase(PARAM_BASE) == BitAnd(PARAM_BASE, 15728640)

RenderArrayPrimitive_EntryOffset(obj, n, param_base, param_ptr, cache_bypass, two_volumes) ==
    [tag_address |-> param_ptr,
     nvtx |-> n,
     tag |-> CoreTagFromDesc(cache_bypass, obj.shadow, obj.skip,
                             obj.param_offs_in_words, 0),
     param_ptr |-> decode_pvr_vertices(param_ptr, obj.skip, two_volumes, n)]

\* refsw_lists.cc:207-224, 238-256: one primitive of an array of primitives
\* of n vertices: where it was read, its tag, and the pointer left
RenderArrayPrimitive(obj, n, param_base, param_ptr, cache_bypass, two_volumes) ==
    [tag_address |-> param_ptr,
     nvtx |-> n,
     tag |-> CoreTagFromDesc(cache_bypass, obj.shadow, obj.skip,
                             (param_ptr - param_base) \div 4, 0),
     param_ptr |-> decode_pvr_vertices(param_ptr, obj.skip, two_volumes, n)]

\* an array entry word
TarrayWord(type, po, skip, shadow, prims) ==
    Word(po % 65536,
         (po \div 65536) + skip * 32 + shadow * 256 + prims * 512 + type * 8192)

\* triangle arrays (type 0b100) and quad arrays (0b101)
ArrayEntryWords ==
    { TarrayWord(type, po, skip, shadow, prims) :
        type \in {4, 5}, po \in ParamOffsets, skip \in {0, 7},
        shadow \in {0, 1}, prims \in 0..15 }

\* values of the PARAM_BASE register, with bits outside 0xF00000 set
ParamBaseRegs == {0, 1048576 + 4660, 16777215}

InitPrimArray ==
    /\ pc = "idle"
    /\ nread = 0
    /\ entry = NoEntry
    /\ regs \in { Regs([SCALER_CTL |-> Scaler(0, 0, 1024), fb_packmode |-> 6], h) :
                    h \in {[region_header_type |-> 0, feed_pre_sort |-> 0]} }
    /\ log = <<>>
    /\ more_to_draw = 0
    /\ peel_n = 0
    /\ written = {}
    /\ nowrite = {}
    /\ ret = "none"
    /\ oq \in { [st |-> "array", obj |-> w, PARAM_BASE |-> pb,
                 intensity_shadow |-> is, CacheBypass |-> 0, i |-> 0,
                 param_ptr |-> ParamBase(pb) + ObjectListTarray(w).param_offs_in_words * 4,
                 emitted |-> <<>>] :
                  w \in ArrayEntryWords, pb \in ParamBaseRegs, is \in {0, 1} }
    /\ mq = Idle /\ dq = Idle /\ tq = Idle /\ rq = Idle /\ aq = Idle /\ tile = Idle

\* refsw_lists.cc:207-225, 238-257: one pass of the for loop of
\* RenderTriangleArray (three vertices) or RenderQuadArray (four)
PrimArrayStep ==
    /\ oq.st = "array"
    /\ LET obj == ObjectListTarray(oq.obj)
           two_volumes == obj.shadow = 1 /\ oq.intensity_shadow = 0
           n == IF obj.type = 4 THEN 3 ELSE 4
           prim == RenderArrayPrimitive(obj, n, ParamBase(oq.PARAM_BASE),
                                        oq.param_ptr, oq.CacheBypass, two_volumes)
       IN  /\ oq.i < obj.prims + 1
           /\ oq' = [oq EXCEPT !.i = @ + 1,
                               !.param_ptr = prim.param_ptr,
                               !.emitted = Append(@, [tag_address |-> prim.tag_address,
                                                      nvtx |-> prim.nvtx,
                                                      tag |-> prim.tag])]
    /\ UNCHANGED <<coreVars, mq, dq, tq, rq, aq, tile>>

NextPrimArray == PrimArrayStep

SpecPrimArray == InitPrimArray /\ [][NextPrimArray]_vars

(***************************************************************************)
(* Tile buffers (refsw_tile.h) over a small set of pixels.  Depths are the  *)
(* integers 0 .. FLT_MAX, FLT_MAX being the greatest depth a buffer holds.  *)
(* A primitive is the function from the pixels it covers to its depth       *)
(* there; its tag is its position in the object list.                       *)
(***************************************************************************)
Pixels == {"A", "B"}

MaxZ == 2
MaxPrims == 2

FLT_MAX == MaxZ + 1

Depths == 0..FLT_MAX

\* the tag written by SetTagToMax: above every tag of the list
TagMax == MaxPrims + 1

Fragments == UNION { [c -> 1..MaxZ] : c \in SUBSET Pixels }

PrimLists == UNION { [1..n -> Fragments] : n \in 1..MaxPrims }

\* modifier volume lists: none, or one closed volume over pixel A
ModLists == { <<>>, <<[cover |-> {"A"}, VolumeMode |-> 1]>> }

NoStencil == [b0 |-> 0, b1 |-> 0, b2 |-> 0]

\* refsw_lists.cc:438: the depth the peel resets depth_test to
PeelDepthClear_One == FLT_MAX - 1

PeelDepthClear == FLT_MAX

\* the tag of the background plane (refsw_lists.cc:333, ISP_BACKGND_T)
TagBg == 0

SetTagToMax(t) == [t EXCEPT !.tag = [p \in Pixels |-> TagMax]]

ClearMoreToDraw(t) == [t EXCEPT !.more = 0]

\* refsw_lists.cc:341: depth buffers, stencil, status, tag and accum are
\* cleared; accum is the sequence of the tags blended over the cleared colour
ClearBuffers(t, tag, depth, stencil) ==
    [t EXCEPT !.depth_test = [p \in Pixels |-> depth],
              !.stencil = [p \in Pixels |->
                             [b0 |-> stencil, b1 |-> stencil, b2 |-> stencil]],
              !.tag = [p \in Pixels |-> tag],
              !.status = [p \in Pixels |-> 0],
              !.accum = [p \in Pixels |-> <<>>]]

\* z_keep / presort clear: only the status buffer is reset, which leaves no
\* tag to be shaded
ClearParamStatusBuffer(t) == [t EXCEPT !.status = [p \in Pixels |-> 0]]

\* refsw_lists.cc:437: copy depth test to depth reference buffer, clear
\* depth test buffer, clear stencil
PeelBuffers(t, depthValue, stencilValue) ==
    [t EXCEPT !.depth_ref = t.depth_test,
              !.depth_test = [p \in Pixels |-> depthValue],
              !.stencil = [p \in Pixels |->
                             [b0 |-> stencilValue, b1 |-> stencilValue,
                              b2 |-> stencilValue]]]

\* RM_TRANSLUCENT_AUTOSORT (refsw_lists.cc:58-61): a fragment is beyond the
\* layer peeled before if its depth is above depth_ref, or equals it with a
\* tag below the tag peeled there (tag_ref, the tag buffer as the iteration
\* found it); of these the pixel keeps the one of lowest depth, and at equal
\* depth the one of greater tag.  A written pixel holds the tag, with its
\* status saying it is to be shaded.
RasterizeAutosort(t, tag, frag) ==
    LET inwin(p) == /\ p \in DOMAIN frag
                    /\ \/ t.depth_ref[p] < frag[p]
                       \/ frag[p] = t.depth_ref[p] /\ tag < t.tag_ref[p]
        pass(p) == inwin(p) /\ frag[p] < t.depth_test[p]
        tie(p) == inwin(p) /\ frag[p] = t.depth_test[p] /\ tag > t.tag[p]
    IN  [t EXCEPT !.depth_test = [p \in Pixels |->
                                    IF pass(p) THEN frag[p] ELSE t.depth_test[p]],
                  !.tag = [p \in Pixels |->
                             IF pass(p) \/ tie(p) THEN tag ELSE t.tag[p]],
                  !.status = [p \in Pixels |->
                                IF pass(p) \/ tie(p) THEN 1 ELSE t.status[p]],
                  !.more = IF \E p \in Pixels : pass(p) \/ tie(p) THEN 1 ELSE @]

\* RM_TRANSLUCENT_PRESORT: full depth test, no depth write; frag holds the
\* pixels of the primitive that pass the depth test
RasterizePresort(t, tag, frag) ==
    [t EXCEPT !.tag = [p \in Pixels |-> IF p \in DOMAIN frag THEN tag ELSE t.tag[p]],
              !.status = [p \in Pixels |->
                            IF p \in DOMAIN frag THEN 1 ELSE t.status[p]]]

\* RM_MODIFIER: stencil bit 0 is set on the covered pixels
RasterizeModifier(t, vol) ==
    [t EXCEPT !.stencil = [p \in Pixels |->
                             IF p \in vol.cover
                               THEN [t.stencil[p] EXCEPT !.b0 = 1]
                               ELSE t.stencil[p]]]

\* RM_OPAQUE: depth and tag are written on the pixels that pass the depth
\* test (nearer or equal); a written pixel holds the tag, to be shaded
RasterizeOpaque(t, tag, frag) ==
    LET pass(p) == p \in DOMAIN frag /\ frag[p] <= t.depth_test[p]
    IN  [t EXCEPT !.depth_test = [p \in Pixels |->
                                    IF pass(p) THEN frag[p] ELSE t.depth_test[p]],
                  !.tag = [p \in Pixels |-> IF pass(p) THEN tag ELSE t.tag[p]],
                  !.status = [p \in Pixels |-> IF pass(p) THEN 1 ELSE t.status[p]]]

\* RM_PUNCHTHROUGH_PASS0 / PASSN: a pixel is written only if
\* depth_test < depth < depth_ref; a written pixel holds depth and tag, to
\* be shaded, and more_to_draw is set
RasterizePunchThrough(t, tag, prim) ==
    LET pass(p) == /\ p \in DOMAIN prim.frag
                   /\ t.depth_test[p] < prim.frag[p]
                   /\ prim.frag[p] < t.depth_ref[p]
    IN  [t EXCEPT !.depth_test = [p \in Pixels |->
                                    IF pass(p) THEN prim.frag[p] ELSE t.depth_test[p]],
                  !.tag = [p \in Pixels |-> IF pass(p) THEN tag ELSE t.tag[p]],
                  !.status = [p \in Pixels |-> IF pass(p) THEN 1 ELSE t.status[p]],
                  !.more = IF \E p \in Pixels : pass(p) THEN 1 ELSE @]

\* refsw_lists.cc:94: the rasterizer of the render mode
RasterizeTriangle_table(render_mode, t, tag, prim) ==
    CASE render_mode = "RM_MODIFIER" -> RasterizeModifier(t, prim)
      [] render_mode = "RM_PUNCHTHROUGH_PASS0" -> RasterizePunchThrough(t, tag, prim)
      [] render_mode = "RM_PUNCHTHROUGH_PASSN" -> RasterizePunchThrough(t, tag, prim)
      [] render_mode = "RM_OPAQUE" -> RasterizeOpaque(t, tag, prim)
      [] render_mode = "RM_TRANSLUCENT_PRESORT" -> RasterizePresort(t, tag, prim)
      [] render_mode = "RM_TRANSLUCENT_AUTOSORT" -> RasterizeAutosort(t, tag, prim)

\* tag resolution of the punch-through pass: a pixel to be shaded whose alpha
\* is below PT_ALPHA_REF becomes a Z hole (accum as it was, tag discarded,
\* status reset, depth as the earlier passes left it, more_to_draw set);
\* otherwise the pixel is blended into accum and its status reset
RenderParamTagsPT(t) ==
    LET pending(p) == t.status[p] = 1 /\ t.tag[p] \notin {TagBg, TagMax}
        hole(p) == pending(p) /\ t.pt[t.tag[p]].alpha < t.PT_ALPHA_REF
    IN  [t EXCEPT !.accum = [p \in Pixels |->
                               IF pending(p) /\ ~hole(p)
                                 THEN Append(t.accum[p], t.tag[p]) ELSE t.accum[p]],
                  !.tag = [p \in Pixels |-> IF hole(p) THEN TagBg ELSE t.tag[p]],
                  !.depth_test = [p \in Pixels |->
                                    IF hole(p) THEN t.depth_in[p] ELSE t.depth_test[p]],
                  !.status = [p \in Pixels |-> IF pending(p) THEN 0 ELSE t.status[p]],
                  !.more = IF \E p \in Pixels : hole(p) THEN 1 ELSE @]

\* tag resolution: every pixel holding a tag of a primitive that is still to
\* be shaded (status 1) is shaded and blended into accum, and its status
\* is reset.
\* accum is kept as the sequence of the tags blended into the pixel.
RenderParamTags(render_mode, t) ==
    LET pending(p) == t.status[p] = 1 /\ t.tag[p] \notin {TagBg, TagMax}
        r == IF render_mode = "RM_PUNCHTHROUGH_PASS0"
               THEN RenderParamTagsPT(t)
               ELSE [t EXCEPT !.accum = [p \in Pixels |->
                                           IF pending(p)
                                             THEN Append(t.accum[p], t.tag[p])
                                             ELSE t.accum[p]],
                              !.status = [p \in Pixels |->
                                            IF pending(p) THEN 0 ELSE t.status[p]]]
    IN  [r EXCEPT !.calls = Append(@, [op |-> "RenderParamTags",
                                       mode |-> render_mode, tag |-> TagBg])]

SummarizeStencilOr(t) ==
    [t EXCEPT !.stencil = [p \in Pixels |->
                             [b0 |-> 0,
                              b1 |-> IF t.stencil[p].b0 = 1 THEN 1 ELSE t.stencil[p].b1,
                              b2 |-> t.stencil[p].b2]]]

SummarizeStencilAnd(t) ==
    [t EXCEPT !.stencil = [p \in Pixels |->
                             [b0 |-> 0,
                              b1 |-> t.stencil[p].b1,
                              b2 |-> IF t.stencil[p].b0 = 1 THEN t.stencil[p].b2 ELSE 0]]]

\* the record of a call of the rasterizer in tile.calls
RasterCall(render_mode, tag) ==
    [op |-> "RasterizeTriangle", mode |-> render_mode, tag |-> tag]

RenderTriangle_FoldSwapped(render_mode, t, tag, prim) ==
    LET r1 == RasterizeTriangle_table(render_mode,
                  [t EXCEPT !.calls = Append(@, RasterCall(render_mode, tag))],
                  tag, prim)
        r2 == IF render_mode = "RM_TRANSLUCENT_PRESORT"
                THEN RenderParamTags("RM_TRANSLUCENT_PRESORT", r1) ELSE r1
    IN  IF render_mode = "RM_MODIFIER"
          THEN IF prim.VolumeMode = 1 THEN SummarizeStencilAnd(r2)
               ELSE IF prim.VolumeMode = 2 THEN SummarizeStencilOr(r2)
               ELSE r2
          ELSE r2

RenderTriangle_TagsNotInline(render_mode, t, tag, prim) ==
    LET r1 == RasterizeTriangle_table(render_mode,
                  [t EXCEPT !.calls = Append(@, RasterCall(render_mode, tag))],
                  tag, prim)
    IN  IF render_mode = "RM_MODIFIER"
          THEN IF prim.VolumeMode = 1 THEN SummarizeStencilOr(r1)
               ELSE IF prim.VolumeMode = 2 THEN SummarizeStencilAnd(r1)
               ELSE r1
          ELSE r1

\* refsw_lists.cc:92-114
RenderTriangle(render_mode, t, tag, prim) ==
    LET r1 == RasterizeTriangle_table(render_mode,
                  [t EXCEPT !.calls = Append(@, RasterCall(render_mode, tag))],
                  tag, prim)
        r2 == IF render_mode = "RM_TRANSLUCENT_PRESORT"
                THEN RenderParamTags("RM_TRANSLUCENT_PRESORT", r1) ELSE r1
    IN  IF render_mode = "RM_MODIFIER"
          THEN IF prim.VolumeMode = 1 THEN SummarizeStencilOr(r2)
               ELSE IF prim.VolumeMode = 2 THEN SummarizeStencilAnd(r2)
               ELSE r2
          ELSE r2

\* the tags of a list whose i-th primitive has tag i
ListOrderTags(list) == [i \in 1..Len(list) |-> i]

RenderTileList_FirstOnly(render_mode, t, list, tags, i) ==
    IF i > Len(list) THEN t
    ELSE RenderTriangle(render_mode, t, tags[i], list[i])

\* refsw_lists.cc:261-294 over the primitives of one list, from the i-th on;
\* tags[i] is the tag of the i-th primitive
RECURSIVE RenderTileList(_, _, _, _, _)
RenderTileList(render_mode, t, list, tags, i) ==
    IF i > Len(list) THEN t
    ELSE RenderTileList(render_mode,
                        RenderTriangle(render_mode, t, tags[i], list[i]),
                        list, tags, i + 1)

\* refsw_lists.cc:413-419: the presort pass over the tile buffers
PresortPass(t) ==
    RenderTileList("RM_TRANSLUCENT_PRESORT", ClearParamStatusBuffer(t),
                   t.trans, t.tags, 1)

PeelIteration_NoPeelBuffers(t, e) ==
    LET t1 == ClearMoreToDraw([t EXCEPT !.tag_ref = t.tag])
        t2 == RenderTileList("RM_TRANSLUCENT_AUTOSORT", t1, t.trans, t.tags, 1)
        t3 == IF e.trans_mod.empty = 0
                THEN RenderTileList("RM_MODIFIER", t2, t.mod,
                                    ListOrderTags(t.mod), 1)
                ELSE t2
        t4 == RenderParamTags("RM_TRANSLUCENT_AUTOSORT", t3)
    IN  [t4 EXCEPT !.iter = t.iter + 1, !.ref_before = t.depth_ref]

PeelIteration_NoClearMore(t, e) ==
    LET t1 == PeelBuffers([t EXCEPT !.tag_ref = t.tag], PeelDepthClear, 0)
        t2 == RenderTileList("RM_TRANSLUCENT_AUTOSORT", t1, t.trans, t.tags, 1)
        t3 == IF e.trans_mod.empty = 0
                THEN RenderTileList("RM_MODIFIER", t2, t.mod,
                                    ListOrderTags(t.mod), 1)
                ELSE t2
        t4 == RenderParamTags("RM_TRANSLUCENT_AUTOSORT", t3)
    IN  [t4 EXCEPT !.iter = t.iter + 1, !.ref_before = t.depth_ref]

\* refsw_lists.cc:434-452: the buffers after one iteration of the auto-sort
\* peel; iter and ref_before record the iteration count and the depth_ref
\* the previous iteration started with
PeelIteration(t, e) ==
    LET t1 == PeelBuffers(ClearMoreToDraw([t EXCEPT !.tag_ref = t.tag]),
                          PeelDepthClear, 0)
        t2 == RenderTileList("RM_TRANSLUCENT_AUTOSORT", t1, t.trans, t.tags, 1)
        t3 == IF e.trans_mod.empty = 0
                THEN RenderTileList("RM_MODIFIER", t2, t.mod,
                                    ListOrderTags(t.mod), 1)
                ELSE t2
        t4 == RenderParamTags("RM_TRANSLUCENT_AUTOSORT", t3)
    IN  [t4 EXCEPT !.iter = t.iter + 1, !.ref_before = t.depth_ref]

(***************************************************************************)
(* The punch-through peel over the tile buffers.  before is the tile as   *)
(* the last tag resolution found it; brk says the loop was left by its     *)
(* break.                                                                  *)
(***************************************************************************)
\* refsw_lists.cc:368
PeelBuffersPTInitial(t, depthValue) ==
    [t EXCEPT !.depth_ref = [p \in Pixels |-> depthValue]]

\* refsw_lists.cc:375-376: keep reference Z buffer
PeelBuffersPT(t) == [t EXCEPT !.depth_ref = t.depth_test]

\* the snapshot a tag resolution starts from
Snapshot(t) == [tag |-> t.tag, status |-> t.status, accum |-> t.accum]

\* refsw_lists.cc:369-374: the traversal of the first iteration
PtTraverse0(t) ==
    RenderTileList("RM_PUNCHTHROUGH_PASS0",
                   ClearMoreToDraw(PeelBuffersPTInitial(t, FLT_MAX)), t.pt,
                   ListOrderTags(t.pt), 1)

PtFirstIteration_NoTags(t) ==
    LET t3 == PeelBuffersPT(PtTraverse0(t))
    IN  [t3 EXCEPT !.before = Snapshot(t3), !.iter = t.iter + 1]

\* refsw_lists.cc:369-381: the first iteration of the punch-through peel
PtFirstIteration(t) ==
    LET t3 == PeelBuffersPT(PtTraverse0(t))
        t4 == RenderParamTags("RM_PUNCHTHROUGH_PASS0", t3)
    IN  [t4 EXCEPT !.before = Snapshot(t3), !.iter = t.iter + 1]

\* refsw_lists.cc:385-388: the traversal a later iteration starts with
PtTraverseN(t) ==
    RenderTileList("RM_PUNCHTHROUGH_PASSN", ClearMoreToDraw(t), t.pt,
                   ListOrderTags(t.pt), 1)

PtLoopIteration_NoBreak(t) ==
    LET t1 == PtTraverseN(t)
        t2 == PeelBuffersPT(ClearMoreToDraw(t1))
        t3 == RenderParamTags("RM_PUNCHTHROUGH_PASS0", t2)
    IN  [t3 EXCEPT !.before = Snapshot(t2), !.iter = t.iter + 1]

PtLoopIteration_NoClear(t) ==
    LET t1 == PtTraverseN(t)
        t2 == PeelBuffersPT(t1)
        t3 == RenderParamTags("RM_PUNCHTHROUGH_PASS0", t2)
    IN  IF t1.more = 0 THEN [t1 EXCEPT !.brk = 1]
        ELSE [t3 EXCEPT !.before = Snapshot(t2), !.iter = t.iter + 1]

\* refsw_lists.cc:383-400: one iteration of the while loop
PtLoopIteration(t) ==
    LET t1 == PtTraverseN(t)
        t2 == PeelBuffersPT(ClearMoreToDraw(t1))
        t3 == RenderParamTags("RM_PUNCHTHROUGH_PASS0", t2)
    IN  IF t1.more = 0 THEN [t1 EXCEPT !.brk = 1]
        ELSE [t3 EXCEPT !.before = Snapshot(t2), !.iter = t.iter + 1]

(***************************************************************************)
(* Shading and writeback of a tile.  The pixels of the tile above the      *)
(* diagonal form the class A, the others the class B; the pixels of a      *)
(* class are shaded alike.                                                 *)
(***************************************************************************)
PixelOf(x, y) == IF x + y < 32 THEN "A" ELSE "B"

\* the colour accum is cleared to
ClearColour == <<0, 0, 0, 0>>

\* TSP blend with the factor codes 0 (zero) and 1 (one) for SrcInstr and
\* DstInstr, clamped to a byte per channel
Blend(dst, par) ==
    [i \in 1..4 |-> Clamp(par.col[i] * par.SrcInstr + dst[i] * par.DstInstr, MaxByte)]

\* the colour accum holds after the tags of seq were blended in order
RECURSIVE AccumColour(_, _, _)
AccumColour(seq, params, i) ==
    IF i = 0 THEN ClearColour
    ELSE Blend(AccumColour(seq, params, i - 1), params[seq[i]])

\* refsw_lists.cc:494
Bpp(r) == IF r.fb_packmode = 1 THEN 2 ELSE 4

WritebackBase_FieldOnly(r) ==
    IF r.fieldselect # 0 THEN r.FB_W_SOF2 ELSE r.FB_W_SOF1

\* refsw_lists.cc:479-482
WritebackBase(r) ==
    IF r.SCALER_CTL.interlace # 0 /\ r.fieldselect # 0
      THEN r.FB_W_SOF2 ELSE r.FB_W_SOF1

OffsetBytes_NoTileY(r, c) == c.tilex * 32 * Bpp(r)

\* refsw_lists.cc:495
OffsetBytes(r, c) == c.tilex * 32 * Bpp(r) + c.tiley * 32 * r.stride * 8

RowDst_NoOffset(r, c, y) == WritebackBase(r) + y * r.stride * 8

\* refsw_lists.cc:500
RowDst(r, c, y) == WritebackBase(r) + OffsetBytes(r, c) + y * r.stride * 8

\* refsw_lists.cc:503-527: the pixel packed from the accum of (x, y)
PixelData(r, t, x, y) ==
    LET seq == t.accum[PixelOf(x, y)]
        src == AccumColour(seq, t.params, Len(seq))
    IN  IF r.fb_packmode = 1 THEN Pack565(src, x, y).pixel ELSE Pack8888(src)

\* refsw_lists.cc:501-532: the writes of one row, dst advancing by bpp;
\* a write is the mapped address, its size in bytes and the pixel
RECURSIVE WritebackRow(_, _, _, _, _, _)
WritebackRow(r, t, y, x, dst, out) ==
    IF x >= 32 THEN out
    ELSE WritebackRow(r, t, y, x + 1, dst + Bpp(r),
                      Append(out, [addr |-> pvr_map32(dst), size |-> Bpp(r),
                                   data |-> PixelData(r, t, x, y)]))

\* refsw_lists.cc:497-533: the writes of the tile in the order they are
\* made, row after row from row y on
RECURSIVE WritebackRows(_, _, _, _)
WritebackRows(r, c, t, y) ==
    IF y >= 32 THEN <<>>
    ELSE WritebackRow(r, t, y, 0, RowDst(r, c, y), <<>>)
             \o WritebackRows(r, c, t, y + 1)

(***************************************************************************)
(* RenderCORE                                                              *)
(***************************************************************************)
\* refsw_lists.cc:314-334: read the next entry, advance base
ReadEntry(controls, lists, cap) ==
    /\ pc = "read"
    /\ nread < cap
    /\ \E w0 \in controls, w \in lists :
          LET rd == ReadRegionArrayEntry(regs, w0, w)
          IN  /\ entry' = rd.entry
              /\ nowrite' = IF rd.entry.control.no_writeout = 1
                              THEN nowrite \cup {nread + 1} ELSE nowrite
    /\ nread' = nread + 1
    /\ log' = <<Call("ClearFpuCache")>>
    /\ pc' = "clear"
    /\ UNCHANGED <<regs, more_to_draw, peel_n, written, ret>>
    /\ UNCHANGED <<fnVars, tile>>

ClearTileBuffers_NoKeep(t, e) == ClearBuffers(t, TagBg, t.ISP_BACKGND_D, 0)

ClearTileBuffers_FltMax(t, e) ==
    IF e.control.z_keep = 0
      THEN ClearBuffers(t, TagBg, FLT_MAX, 0)
      ELSE ClearParamStatusBuffer(t)

\* refsw_lists.cc:337-345: the tile buffers after the clear of an entry;
\* the depth of the clear is ISP_BACKGND_D.f
ClearTileBuffers(t, e) ==
    IF e.control.z_keep = 0
      THEN ClearBuffers(t, TagBg, t.ISP_BACKGND_D, 0)
      ELSE ClearParamStatusBuffer(t)

\* refsw_lists.cc:336-345
ClearTile ==
    /\ pc = "clear"
    /\ log' = Append(log, IF entry.control.z_keep = 0
                            THEN Call("ClearBuffers")
                            ELSE Call("ClearParamStatusBuffer"))
    /\ pc' = PcAfter("clear")
    /\ tile' = IF tile.st = "frame" THEN ClearTileBuffers(tile, entry) ELSE tile
    /\ UNCHANGED <<nread, entry, regs, more_to_draw, peel_n, written, nowrite,
                   ret>>
    /\ UNCHANGED fnVars

OpaqueTraversals_ModifierOutside(e) ==
    (IF e.opaque.empty = 0 THEN <<Traverse("RM_OPAQUE", "opaque")>> ELSE <<>>)
      \o (IF e.opaque_mod.empty = 0
            THEN <<Traverse("RM_MODIFIER", "opaque_mod")>> ELSE <<>>)

\* refsw_lists.cc:348-358: the traversals of the opaque block
OpaqueTraversals(e) ==
    IF e.opaque.empty = 0
      THEN <<Traverse("RM_OPAQUE", "opaque")>>
             \o (IF e.opaque_mod.empty = 0
                   THEN <<Traverse("RM_MODIFIER", "opaque_mod")>> ELSE <<>>)
      ELSE <<>>

\* refsw_lists.cc:347-358
OpaqueLists ==
    /\ pc = "opaq"
    /\ \E stop \in Stops :
        /\ log' = log \o OpaqueTraversals(entry)
        /\ pc' = IF entry.opaque.empty = 0 /\ stop
                   THEN "aborted" ELSE PcAfter("opaq")
    /\ tile' = IF tile.st = "frame" /\ entry.opaque.empty = 0
                 THEN LET r == RenderTileList("RM_OPAQUE", tile, tile.lists[nread],
                                              tile.tags[nread], 1)
                      IN  IF entry.opaque_mod.empty = 0
                            THEN RenderTileList("RM_MODIFIER", r, tile.mods[nread],
                                                ListOrderTags(tile.mods[nread]), 1)
                            ELSE r
                 ELSE tile
    /\ UNCHANGED <<nread, entry, regs, more_to_draw, peel_n, written, nowrite, ret>>
    /\ UNCHANGED fnVars

\* refsw_lists.cc:360-362
OpaqueParams ==
    /\ pc = "op_params"
    /\ log' = Append(log, Tags("RM_OPAQUE"))
    /\ pc' = PcAfter("op_params")
    /\ tile' = IF tile.st = "frame" THEN RenderParamTags("RM_OPAQUE", tile)
               ELSE tile
    /\ UNCHANGED <<nread, entry, regs, more_to_draw, peel_n, written, nowrite,
                   ret>>
    /\ UNCHANGED fnVars

\* refsw_lists.cc:369-381: the calls of the first punch-through iteration
PtFirstCalls ==
    <<Call("PeelBuffersPTInitial"), Call("ClearMoreToDraw"),
      Traverse("RM_PUNCHTHROUGH_PASS0", "puncht"),
      Call("PeelBuffersPT"), Tags("RM_PUNCHTHROUGH_PASS0")>>

PtLoopCalls_Pass0(d1) ==
    IF d1 = 0
      THEN <<Call("ClearMoreToDraw"), Traverse("RM_PUNCHTHROUGH_PASS0", "puncht")>>
      ELSE <<Call("ClearMoreToDraw"), Traverse("RM_PUNCHTHROUGH_PASS0", "puncht"),
             Call("ClearMoreToDraw"), Call("PeelBuffersPT"),
             Tags("RM_PUNCHTHROUGH_PASS0")>>

\* refsw_lists.cc:385-399: the calls of one iteration of the while loop;
\* d1 is GetMoreToDraw() after the traversal
PtLoopCalls(d1) ==
    IF d1 = 0
      THEN <<Call("ClearMoreToDraw"), Traverse("RM_PUNCHTHROUGH_PASSN", "puncht")>>
      ELSE <<Call("ClearMoreToDraw"), Traverse("RM_PUNCHTHROUGH_PASSN", "puncht"),
             Call("ClearMoreToDraw"), Call("PeelBuffersPT"),
             Tags("RM_PUNCHTHROUGH_PASS0")>>

PtModCalls_TransMod(e) ==
    IF e.trans_mod.empty = 0
      THEN <<Traverse("RM_MODIFIER", "opaque_mod"), Tags("RM_PUNCHTHROUGH_MV")>>
      ELSE <<>>

\* refsw_lists.cc:401-407: the calls after the while loop
PtModCalls(e) ==
    IF e.opaque_mod.empty = 0
      THEN <<Traverse("RM_MODIFIER", "opaque_mod"), Tags("RM_PUNCHTHROUGH_MV")>>
      ELSE <<>>

\* refsw_lists.cc:364-381: the first punch-through iteration
PunchThroughFirst ==
    /\ pc = "pt"
    /\ IF entry.puncht.empty = 0
         THEN \E d1 \in (IF tile.st = "pt" THEN {PtFirstIteration(tile).more}
                           ELSE {0, 1}),
                   d2 \in (IF tile.st = "pt" THEN {0} ELSE {0, 1}),
                   stop \in Stops :
                /\ log' = log \o PtFirstCalls
                /\ more_to_draw' = IF d1 = 1 \/ d2 = 1 THEN 1 ELSE 0
                /\ peel_n' = 0
                /\ pc' = IF stop THEN "aborted" ELSE "pt_loop"
         ELSE /\ pc' = PcAfter("pt")
              /\ UNCHANGED <<log, more_to_draw, peel_n>>
    /\ tile' = IF tile.st = "pt" /\ entry.puncht.empty = 0
                 THEN PtFirstIteration(tile) ELSE tile
    /\ UNCHANGED <<nread, entry, regs, written, nowrite, ret>>
    /\ UNCHANGED fnVars

\* refsw_lists.cc:383-400: one evaluation of the while condition and its body
PunchThroughLoop ==
    /\ pc = "pt_loop"
    /\ IF more_to_draw = 0
         THEN /\ pc' = "pt_mod"
              /\ UNCHANGED <<log, more_to_draw, peel_n>>
         ELSE \E d1 \in (IF tile.st = "pt" THEN {PtTraverseN(tile).more}
                           ELSE Draws),
                   d2 \in (IF tile.st = "pt" THEN {PtLoopIteration(tile).more}
                           ELSE {0, 1}),
                   stop \in Stops :
                /\ log' = log \o PtLoopCalls(d1)
                /\ IF d1 = 0
                     THEN /\ more_to_draw' = 0
                          /\ peel_n' = peel_n
                          /\ pc' = IF stop THEN "aborted" ELSE "pt_mod"
                     ELSE /\ more_to_draw' = d2
                          /\ peel_n' = peel_n + 1
                          /\ pc' = IF stop THEN "aborted" ELSE "pt_loop"
    /\ tile' = IF tile.st = "pt" /\ more_to_draw # 0
                 THEN PtLoopIteration(tile) ELSE tile
    /\ UNCHANGED <<nread, entry, regs, written, nowrite, ret>>
    /\ UNCHANGED fnVars

\* refsw_lists.cc:401-408
PunchThroughMod ==
    /\ pc = "pt_mod"
    /\ \E stop \in Stops :
        /\ log' = log \o PtModCalls(entry)
        /\ pc' = IF PtModCalls(entry) # <<>> /\ stop
                   THEN "aborted" ELSE PcAfter("pt")
    /\ UNCHANGED <<nread, entry, regs, more_to_draw, peel_n, written, nowrite, ret>>
    /\ UNCHANGED <<fnVars, tile>>

\* refsw_lists.cc:410-430: presort pass, or entry of the auto-sort peel
Translucent ==
    /\ pc = "tr"
    /\ \E stop \in Stops :
        IF entry.trans.empty = 0
          THEN IF entry.control.pre_sort = 1
                 THEN /\ log' = log \o <<Call("ClearParamStatusBuffer"),
                                Traverse("RM_TRANSLUCENT_PRESORT", "trans")>>
                      /\ pc' = IF stop THEN "aborted" ELSE PcAfter("tr")
                      /\ peel_n' = peel_n
                 ELSE /\ log' = Append(log, Call("SetTagToMax"))
                      /\ pc' = "tr_as"
                      /\ peel_n' = 0
          ELSE /\ pc' = PcAfter("tr")
               /\ UNCHANGED <<log, peel_n>>
    /\ tile' = IF tile.st = "tile" /\ entry.trans.empty = 0
                 THEN IF entry.control.pre_sort = 1
                        THEN PresortPass(tile) ELSE SetTagToMax(tile)
                 ELSE tile
    /\ UNCHANGED <<nread, entry, regs, more_to_draw, written, nowrite, ret>>
    /\ UNCHANGED fnVars

\* refsw_lists.cc:431-453: one iteration of the auto-sort do/while
TranslucentPeel ==
    /\ pc = "tr_as"
    /\ \E d1 \in (IF tile.st = "tile" THEN {PeelIteration(tile, entry).more}
                   ELSE Draws), stop \in Stops :
        LET md == IF entry.trans_mod.empty = 0
                    THEN <<Traverse("RM_MODIFIER", "trans_mod")>> ELSE <<>>
        IN  /\ log' = log \o <<Call("ClearMoreToDraw"), Call("PeelBuffers"),
                               Traverse("RM_TRANSLUCENT_AUTOSORT", "trans")>>
                          \o md \o <<Tags("RM_TRANSLUCENT_AUTOSORT")>>
            /\ more_to_draw' = d1
            /\ peel_n' = peel_n + d1
            /\ pc' = IF stop THEN "aborted"
                     ELSE IF d1 # 0 THEN "tr_as" ELSE PcAfter("tr")
    /\ tile' = IF tile.st = "tile" THEN PeelIteration(tile, entry) ELSE tile
    /\ UNCHANGED <<nread, entry, regs, written, nowrite, ret>>
    /\ UNCHANGED fnVars

WritebackEnabled_Always(e) == TRUE

\* refsw_lists.cc:467: if (!entry.control.no_writeout)
WritebackEnabled(e) == e.control.no_writeout = 0

WritebackOutcome_WriteFirst(r, e) ==
    IF ~WritebackEnabled(e)
      THEN [abort |-> FALSE, wrote |-> FALSE]
      ELSE [abort |-> ~ConfigAsserts(r), wrote |-> TRUE]

WritebackOutcome_AssertFirst(r, e) ==
    IF ~ConfigAsserts(r)
      THEN [abort |-> TRUE, wrote |-> FALSE]
      ELSE IF ~WritebackEnabled(e)
             THEN [abort |-> FALSE, wrote |-> FALSE]
             ELSE [abort |-> FALSE, wrote |-> TRUE]

\* refsw_lists.cc:466-534: the asserts come before the pixel loops
WritebackOutcome(r, e) ==
    IF ~WritebackEnabled(e)
      THEN [abort |-> FALSE, wrote |-> FALSE]
      ELSE IF ~ConfigAsserts(r)
             THEN [abort |-> TRUE, wrote |-> FALSE]
             ELSE [abort |-> FALSE, wrote |-> TRUE]

Writeback ==
    /\ pc = "writeback"
    /\ LET o == WritebackOutcome(regs, entry)
       IN  /\ written' = IF o.wrote THEN written \cup {nread} ELSE written
           /\ log' = IF o.wrote THEN Append(log, Call("Writeback")) ELSE log
           /\ pc' = IF o.abort THEN "aborted" ELSE PcAfter("writeback")
           /\ tile' = IF tile.st = "frame" /\ o.wrote
                        THEN [tile EXCEPT !.wr = Append(@,
                                [n |-> nread, control |-> entry.control,
                                 w |-> WritebackRows(regs, entry.control, tile, 0)])]
                        ELSE tile
    /\ UNCHANGED <<nread, entry, regs, more_to_draw, peel_n, nowrite, ret>>
    /\ UNCHANGED fnVars

LoopContinues_Capped(e, n) == e.control.last_region = 0 /\ n < 1024

\* refsw_lists.cc:535: while (!entry.control.last_region)
LoopContinues(e, n) == e.control.last_region = 0

\* refsw_lists.cc:535-536 and refsw2_stub.cc:8-13: loop again or return
LoopTest ==
    /\ pc = "loop"
    /\ IF LoopContinues(entry, nread)
         THEN pc' = "read" /\ ret' = ret
         ELSE pc' = "done" /\ ret' = "void"
    /\ UNCHANGED <<nread, entry, regs, log, more_to_draw, peel_n, written,
                   nowrite>>
    /\ UNCHANGED <<fnVars, tile>>

InitCore(rdom) ==
    /\ pc = "read"
    /\ nread = 0
    /\ entry = NoEntry
    /\ regs \in rdom
    /\ log = <<>>
    /\ more_to_draw = 0
    /\ peel_n = 0
    /\ written = {}
    /\ nowrite = {}
    /\ ret = "none"

IdleFn == mq = Idle /\ dq = Idle /\ tq = Idle /\ rq = Idle /\ aq = Idle /\ oq = Idle

Init == InitCore(PassRegDomain) /\ IdleFn /\ tile = Idle

Next ==
    \/ ReadEntry(ControlDomain, ListsDomain, MaxEntries)
    \/ ClearTile
    \/ OpaqueLists
    \/ OpaqueParams
    \/ PunchThroughFirst
    \/ PunchThroughLoop
    \/ PunchThroughMod
    \/ Translucent
    \/ TranslucentPeel
    \/ Writeback
    \/ LoopTest

Spec == Init /\ [][Next]_vars

(***************************************************************************)
(* The region loop alone: a long region array of entries that are written  *)
(* back under a supported configuration                                    *)
(***************************************************************************)
RegionRegDomain ==
    { Regs([SCALER_CTL |-> Scaler(0, 0, 1024), fb_packmode |-> 1], h) :
        h \in { g \in HeaderDomain : g.feed_pre_sort = 0 } }

RegionControls ==
    [no_writeout : {0}, pre_sort : {0}, z_keep : {0, 1}, last_region : {0, 1}]

RegionLists ==
    [opaque : ListPointerDomain, opaque_mod : {EmptyList}, trans : {EmptyList},
     trans_mod : {EmptyList}, puncht : {EmptyList}]

InitRegion == InitCore(RegionRegDomain) /\ IdleFn /\ tile = Idle

NextRegion ==
    \/ ReadEntry(RegionControls, RegionLists, MaxRegionEntries)
    \/ ClearTile
    \/ OpaqueLists
    \/ OpaqueParams
    \/ PunchThroughFirst
    \/ Translucent
    \/ Writeback
    \/ LoopTest

SpecRegion == InitRegion /\ [][NextRegion]_vars

(***************************************************************************)
(* The frame under every register configuration: entries with an opaque   *)
(* and a translucent list                                                  *)
(***************************************************************************)
ConfigLists ==
    [opaque : ListPointerDomain, opaque_mod : {EmptyList},
     trans : ListPointerDomain, trans_mod : {EmptyList}, puncht : {EmptyList}]

InitConfig == InitCore(RegDomain) /\ IdleFn /\ tile = Idle

NextConfig ==
    \/ ReadEntry(ControlDomain, ConfigLists, MaxEntries)
    \/ ClearTile
    \/ OpaqueLists
    \/ OpaqueParams
    \/ PunchThroughFirst
    \/ Translucent
    \/ TranslucentPeel
    \/ Writeback
    \/ LoopTest

SpecConfig == InitConfig /\ [][NextConfig]_vars

(***************************************************************************)
(* The translucent auto-sort peel of one region entry over the tile        *)
(* buffers: RenderCORE stands before the translucent block of an entry     *)
(* whose translucent list is present and not presorted; depth_test holds   *)
(* what the clear and the earlier passes left.                             *)
(***************************************************************************)
\* the tile buffers when the translucent block is reached: depth d left by
\* the earlier passes (kept in depth_in), no tag of a primitive pending,
\* nothing blended yet
TileAt(d, l, tags, m) ==
    [st |-> "tile", depth_ref |-> d, depth_test |-> d,
     tag |-> [p \in Pixels |-> TagBg],
     tag_ref |-> [p \in Pixels |-> TagBg],
     status |-> [p \in Pixels |-> 0],
     accum |-> [p \in Pixels |-> <<>>],
     calls |-> <<>>,
     stencil |-> [p \in Pixels |-> NoStencil],
     more |-> 0, trans |-> l, tags |-> tags, mod |-> m,
     iter |-> 0, ref_before |-> d, depth_in |-> d]

InitPeel ==
    /\ pc = "tr"
    /\ nread = 1
    /\ regs = Regs([SCALER_CTL |-> Scaler(0, 0, 1024), fb_packmode |-> 6],
                   [region_header_type |-> 1, feed_pre_sort |-> 0])
    /\ log = <<>>
    /\ more_to_draw = 0
    /\ peel_n = 0
    /\ written = {}
    /\ nowrite = {}
    /\ ret = "none"
    /\ \E m \in ModLists, l \in PrimLists, d \in [Pixels -> Depths] :
         /\ entry = [NoEntry EXCEPT !.control.last_region = 1,
                                    !.trans = [empty |-> 0],
                                    !.trans_mod = [empty |-> IF m = <<>> THEN 1 ELSE 0]]
         /\ tile = TileAt(d, l, ListOrderTags(l), m)
    /\ IdleFn

NextPeel ==
    \/ Translucent
    \/ TranslucentPeel

SpecPeel == InitPeel /\ [][NextPeel]_vars

(***************************************************************************)
(* The translucent block of one region entry, presorted or auto-sorted,    *)
(* over a list whose primitives carry any distinct tags; the depth left by *)
(* the earlier passes is the same at every pixel.                          *)
(***************************************************************************)
\* the assignments of the tags 1..n to the n primitives of a list
TagOrders(n) == { f \in [1..n -> 1..n] : \A i, j \in 1..n : f[i] = f[j] => i = j }

TransDepths == { [p \in Pixels |-> d] : d \in {0, 1} }

InitTrans ==
    /\ pc = "tr"
    /\ nread = 1
    /\ regs = Regs([SCALER_CTL |-> Scaler(0, 0, 1024), fb_packmode |-> 6],
                   [region_header_type |-> 1, feed_pre_sort |-> 0])
    /\ log = <<>>
    /\ more_to_draw = 0
    /\ peel_n = 0
    /\ written = {}
    /\ nowrite = {}
    /\ ret = "none"
    /\ \E ps \in {0, 1}, l \in PrimLists, d \in TransDepths :
         \E tags \in TagOrders(Len(l)) :
           /\ entry = [NoEntry EXCEPT !.control.last_region = 1,
                                      !.control.pre_sort = ps,
                                      !.trans = [empty |-> 0]]
           /\ tile = TileAt(d, l, tags, <<>>)
    /\ IdleFn

NextTrans ==
    \/ Translucent
    \/ TranslucentPeel

SpecTrans == InitTrans /\ [][NextTrans]_vars

\* the same block run to its end: RenderCORE keeps executing
\* (refsw_lists.cc:431-453 has no blocking call)
SpecTransFair == SpecTrans /\ WF_vars(NextTrans)

(***************************************************************************)
(* Modifier volume triangles: RenderTriangle in RM_MODIFIER over a list of *)
(* volumes, from any content of the stencil buffer.  before and mid record *)
(* the stencil before the last triangle and after its rasterization.       *)
(***************************************************************************)
MaxVols == 2

Volumes == [cover : SUBSET Pixels, VolumeMode : {0, 1, 2}]

VolumeLists == UNION { [1..n -> Volumes] : n \in 1..MaxVols }

StencilDomain == [Pixels -> [b0 : {0, 1}, b1 : {0, 1}, b2 : {0, 1}]]

InitStencil ==
    /\ IdleCore
    /\ IdleFn
    /\ tile \in { [st |-> "vol", stencil |-> sb, vols |-> l, done |-> 0,
                    calls |-> <<>>, before |-> sb, mid |-> sb] :
                     sb \in StencilDomain, l \in VolumeLists }

\* refsw_lists.cc:92-114: the next triangle of the modifier volume list
ModifierTriangle ==
    /\ tile.st = "vol"
    /\ tile.done < Len(tile.vols)
    /\ LET vol == tile.vols[tile.done + 1]
           r == RenderTriangle("RM_MODIFIER", tile, tile.done + 1, vol)
       IN  tile' = [r EXCEPT !.done = tile.done + 1,
                             !.before = tile.stencil,
                             !.mid = RasterizeModifier(tile, vol).stencil]
    /\ UNCHANGED <<coreVars, fnVars>>

NextStencil == ModifierTriangle

SpecStencil == InitStencil /\ [][NextStencil]_vars

(***************************************************************************)
(* Frames of two region entries over the tile buffers and the frame        *)
(* buffer: the tiles, the line stride, the start address and the pack mode *)
(* vary; wr holds the writes of every writeback made, in order.            *)
(***************************************************************************)
\* the registers of a frame under a supported configuration
FrameRegs(pm, stride, sof) ==
    [SCALER_CTL |-> Scaler(0, 0, 1024), fb_packmode |-> pm,
     region_header_type |-> 1, feed_pre_sort |-> 0, fieldselect |-> 0,
     FB_W_SOF1 |-> sof, FB_W_SOF2 |-> sof + 4, stride |-> stride]

\* FB_W_LINESTRIDE.stride of lines of 128 and of 640 bytes, FB_W_SOF1 inside
\* VRAM and 2 KiB below its end, both pack modes
WbRegDomain ==
    { FrameRegs(1, 16, 2097152), FrameRegs(6, 16, VRAM_SIZE - 2048),
      FrameRegs(1, 80, VRAM_SIZE - 2048), FrameRegs(6, 80, 2097152) }

\* the tile buffers and the frame buffer writes before the first entry
FrameTile(lists, tags, params) ==
    [st |-> "frame", ISP_BACKGND_D |-> FLT_MAX,
     depth_test |-> [p \in Pixels |-> FLT_MAX],
     stencil |-> [p \in Pixels |-> NoStencil],
     mods |-> <<<<>>, <<>>>>,
     tag |-> [p \in Pixels |-> TagBg],
     status |-> [p \in Pixels |-> 0],
     accum |-> [p \in Pixels |-> <<>>],
     calls |-> <<>>,
     lists |-> lists, tags |-> tags, params |-> params,
     wr |-> <<>>]

\* the first entry is not the last one, the second is
WbControls ==
    [tilex : {0, 1}, tiley : IF nread = 0 THEN {0} ELSE {0, 1},
     no_writeout : {0, 1}, pre_sort : {0}, z_keep : {0},
     last_region : IF nread = 0 THEN {0} ELSE {1}]

WbLists ==
    [opaque : IF nread = 0 THEN ListPointerDomain ELSE {[empty |-> 0]},
     opaque_mod : {EmptyList}, trans : {EmptyList},
     trans_mod : {EmptyList}, puncht : {EmptyList}]

\* the opaque list of both entries: one red triangle over the class A
WbTriangle == <<[p \in {"A"} |-> 1]>>

WbParams == <<[col |-> <<MaxByte, 0, 0, MaxByte>>, SrcInstr |-> 1, DstInstr |-> 0]>>

InitWb ==
    /\ InitCore(WbRegDomain)
    /\ IdleFn
    /\ tile = FrameTile(<<WbTriangle, WbTriangle>>, <<<<1>>, <<1>>>>, WbParams)

NextWb ==
    \/ ReadEntry(WbControls, WbLists, MaxEntries)
    \/ ClearTile
    \/ OpaqueLists
    \/ OpaqueParams
    \/ PunchThroughFirst
    \/ Translucent
    \/ Writeback
    \/ LoopTest

SpecWb == InitWb /\ [][NextWb]_vars

(***************************************************************************)
(* The frame of two tiles under every value of SCALER_CTL.interlace and    *)
(* SCALER_CTL.fieldselect, with two different frame buffer bases           *)
(***************************************************************************)
SofRegDomain ==
    { [FrameRegs(pm, 80, 2097152) EXCEPT !.SCALER_CTL = Scaler(0, i, 1024),
                                         !.fieldselect = f,
                                         !.FB_W_SOF2 = VRAM_BANK_BIT + 2097152] :
        pm \in {6}, i \in {0, 1}, f \in {0, 1} }

InitSof ==
    /\ InitCore(SofRegDomain)
    /\ IdleFn
    /\ tile = FrameTile(<<WbTriangle, WbTriangle>>, <<<<1>>, <<1>>>>, WbParams)

NextSof ==
    \/ ReadEntry(WbControls, WbLists, MaxEntries)
    \/ ClearTile
    \/ OpaqueLists
    \/ OpaqueParams
    \/ PunchThroughFirst
    \/ Translucent
    \/ Writeback
    \/ LoopTest

SpecSof == InitSof /\ [][NextSof]_vars

(***************************************************************************)
(* A frame of two entries on one tile: the first clears the tile, renders  *)
(* a triangle of its opaque list and writes the tile; the second has       *)
(* z_keep = 1 and no list.  The colour and the blend factors of the        *)
(* triangle and the pixels it covers vary.                                 *)
(***************************************************************************)
KeepRegDomain == { FrameRegs(1, 80, 2097152), FrameRegs(6, 80, 2097152) }

KeepControls ==
    [tilex : {0}, tiley : {0},
     no_writeout : IF nread = 0 THEN {0} ELSE {0, 1},
     pre_sort : {0},
     z_keep : IF nread = 0 THEN {0} ELSE {1},
     last_region : IF nread = 0 THEN {0} ELSE {1}]

KeepLists ==
    [opaque : IF nread = 0 THEN {[empty |-> 0]} ELSE {EmptyList},
     opaque_mod : {EmptyList}, trans : {EmptyList}, trans_mod : {EmptyList},
     puncht : {EmptyList}]

\* the triangle: over the class A or over the whole tile
KeepTriangles == { <<[p \in c |-> 1]>> : c \in {{"A"}, {"A", "B"}} }

\* its parameters: solid red or a darker colour, DstInstr zero or one
KeepParams ==
    { <<[col |-> c, SrcInstr |-> 1, DstInstr |-> d]>> :
        c \in {<<MaxByte, 0, 0, MaxByte>>, <<100, 50, 0, MaxByte>>}, d \in {0, 1} }

InitKeep ==
    /\ InitCore(KeepRegDomain)
    /\ IdleFn
    /\ \E tri \in KeepTriangles, par \in KeepParams :
          tile = FrameTile(<<tri, <<>>>>, <<<<1>>, <<>>>>, par)

NextKeep ==
    \/ ReadEntry(KeepControls, KeepLists, MaxEntries)
    \/ ClearTile
    \/ OpaqueLists
    \/ OpaqueParams
    \/ PunchThroughFirst
    \/ Translucent
    \/ Writeback
    \/ LoopTest

SpecKeep == InitKeep /\ [][NextKeep]_vars

(***************************************************************************)
(* The clear step between two entries on one tile: the first entry clears  *)
(* the tile and renders its opaque list and, if present, its opaque        *)
(* modifier list; the second has z_keep 0 or 1.  ISP_BACKGND_D and the     *)
(* volumes of the modifier list vary; nothing is written back.             *)
(***************************************************************************)
ClearControls ==
    [tilex : {0}, tiley : {0}, no_writeout : {1}, pre_sort : {0},
     z_keep : IF nread = 0 THEN {0} ELSE {0, 1},
     last_region : IF nread = 0 THEN {0} ELSE {1}]

ClearLists ==
    [opaque : IF nread = 0 THEN {[empty |-> 0]} ELSE ListPointerDomain,
     opaque_mod : ListPointerDomain, trans : {EmptyList},
     trans_mod : {EmptyList}, puncht : {EmptyList}]

\* modifier volume triangles over the class A of every VolumeMode
ClearVolumeLists ==
    UNION { [1..n -> [cover : {{"A"}}, VolumeMode : {0, 1, 2}]] : n \in 1..MaxVols }

\* ISP_BACKGND_D.f: a depth inside the range, or FLT_MAX itself
BackgroundDepths == {1, FLT_MAX}

InitClear ==
    /\ InitCore({FrameRegs(6, 80, 2097152)})
    /\ IdleFn
    /\ \E tri \in KeepTriangles, vl \in ClearVolumeLists, d \in BackgroundDepths :
          tile = [FrameTile(<<tri, tri>>, <<<<1>>, <<1>>>>, WbParams)
                    EXCEPT !.mods = <<vl, vl>>, !.ISP_BACKGND_D = d]

NextClear ==
    \/ ReadEntry(ClearControls, ClearLists, MaxEntries)
    \/ ClearTile
    \/ OpaqueLists
    \/ OpaqueParams
    \/ PunchThroughFirst
    \/ Translucent
    \/ Writeback
    \/ LoopTest

SpecClear == InitClear /\ [][NextClear]_vars

(***************************************************************************)
(* Frames whose frame buffer starts at an odd address at the top of VRAM,  *)
(* above 8 MiB, or at an address that is not a multiple of 4.              *)
(***************************************************************************)
EdgeRegDomain ==
    { FrameRegs(1, 80, VRAM_SIZE - 1), FrameRegs(6, 80, 2 * VRAM_SIZE + 4),
      FrameRegs(1, 16, 2097152 + 2) }

InitEdge ==
    /\ InitCore(EdgeRegDomain)
    /\ IdleFn
    /\ tile = FrameTile(<<WbTriangle, WbTriangle>>, <<<<1>>, <<1>>>>, WbParams)

NextEdge ==
    \/ ReadEntry(WbControls, WbLists, MaxEntries)
    \/ ClearTile
    \/ OpaqueLists
    \/ OpaqueParams
    \/ PunchThroughFirst
    \/ Translucent
    \/ Writeback
    \/ LoopTest

SpecEdge == InitEdge /\ [][NextEdge]_vars

(***************************************************************************)
(* The punch-through block of one region entry over the tile buffers: the  *)
(* primitives of the list have a depth at each pixel they cover and an     *)
(* alpha, below PT_ALPHA_REF or not.                                       *)
(***************************************************************************)
\* PT_ALPHA_REF of scenario S3
PtAlphaRef == 128

PtPrims == [frag : Fragments, alpha : {PtAlphaRef - 1, PtAlphaRef}]

PtLists == UNION { [1..n -> PtPrims] : n \in 1..MaxPrims }

PtTileAt(d, l) ==
    [st |-> "pt", depth_ref |-> d, depth_test |-> d, depth_in |-> d,
     tag |-> [p \in Pixels |-> TagBg],
     status |-> [p \in Pixels |-> 0],
     accum |-> [p \in Pixels |-> <<>>],
     calls |-> <<>>, more |-> 0, pt |-> l, PT_ALPHA_REF |-> PtAlphaRef,
     before |-> [tag |-> [p \in Pixels |-> TagBg],
                 status |-> [p \in Pixels |-> 0],
                 accum |-> [p \in Pixels |-> <<>>]],
     iter |-> 0, brk |-> 0]

InitPt ==
    /\ pc = "pt"
    /\ nread = 1
    /\ regs = Regs([SCALER_CTL |-> Scaler(0, 0, 1024), fb_packmode |-> 6],
                   [region_header_type |-> 1, feed_pre_sort |-> 0])
    /\ log = <<>>
    /\ more_to_draw = 0
    /\ peel_n = 0
    /\ written = {}
    /\ nowrite = {}
    /\ ret = "none"
    /\ \E l \in PtLists, d \in TransDepths :
         /\ entry = [NoEntry EXCEPT !.control.last_region = 1,
                                    !.puncht = [empty |-> 0]]
         /\ tile = PtTileAt(d, l)
    /\ IdleFn

NextPt ==
    \/ PunchThroughFirst
    \/ PunchThroughLoop
    \/ PunchThroughMod

SpecPt == InitPt /\ [][NextPt]_vars

(***************************************************************************)
(* Properties of RenderCORE                                                *)
(***************************************************************************)

\* C1 as stated: the region loop reads at most the first 1024 entries of the
\* region array; without a last_region entry among them it stops there.
C1_Original == nread <= 1024

\* C1 amended: RenderCORE returns exactly when the entry it has just
\* processed has last_region = 1, at whatever index; as long as the entry
\* processed has last_region = 0 it goes on to read the next entry, and the
\* caller receives nothing before the return.
C1_HaltsAtLastRegion ==
    /\ pc = "done" => (entry.control.last_region = 1 /\ ret = "void")
    /\ (pc = "read" /\ nread > 0) => entry.control.last_region = 0
    /\ pc # "done" => ret = "none"

C1_Witness == pc = "done" /\ nread > 1024

PtModes == {"RM_PUNCHTHROUGH_PASS0", "RM_PUNCHTHROUGH_PASSN", "RM_PUNCHTHROUGH_MV"}
TrModes == {"RM_TRANSLUCENT_AUTOSORT", "RM_TRANSLUCENT_PRESORT"}

PassOfMode(m) ==
    IF m = "RM_OPAQUE" THEN 1
    ELSE IF m \in PtModes THEN 2
    ELSE IF m \in TrModes THEN 3
    ELSE 0

\* the pass a logged call belongs to: 1 opaque, 2 punch-through,
\* 3 translucent, 4 writeback, 0 for the buffer housekeeping calls; a
\* modifier traversal belongs to the pass of the call it follows
EventPass(i) ==
    IF log[i].op = "Writeback" THEN 4
    ELSE IF log[i].mode = "RM_MODIFIER" THEN PassOfMode(log[i - 1].mode)
    ELSE PassOfMode(log[i].mode)

\* C2: within one region entry every opaque call (RM_OPAQUE traversal, its
\* modifier traversal, RM_OPAQUE tag resolution) comes before every
\* punch-through call, every punch-through call before every translucent
\* call, and the writeback after all of them.
C2_PassOrder ==
    LET pass == [i \in DOMAIN log |-> EventPass(i)]
    IN  \A j \in DOMAIN log :
            pass[j] # 0 => \A i \in 1..(j - 1) : pass[i] = 0 \/ pass[i] <= pass[j]

C2_Witness ==
    /\ pc = "loop"
    /\ \E i \in DOMAIN log : log[i].mode = "RM_MODIFIER" /\ EventPass(i) = 1
    /\ \E i \in DOMAIN log : log[i].mode = "RM_PUNCHTHROUGH_PASSN"
    /\ \E i \in DOMAIN log : log[i].mode = "RM_PUNCHTHROUGH_MV"
    /\ \E i \in DOMAIN log : log[i].mode = "RM_TRANSLUCENT_AUTOSORT"
    /\ \E i \in DOMAIN log : log[i].op = "Writeback"

C5_Unsupported(r) ==
    \/ r.fb_packmode \notin {1, 6}
    \/ r.SCALER_CTL.hscale # 0
    \/ r.SCALER_CTL.interlace # 0
    \/ r.SCALER_CTL.vscalefactor \notin {1024, 1025, 2048}

\* C5 as stated: a frame stopped by an unsupported configuration hands
\* ConfigurationUnsupported to the caller as the result of render().
C5_Original == pc = "aborted" => ret = "ConfigurationUnsupported"

\* C5 amended: the frame is stopped only by a failed assert at the writeback
\* of an entry with no_writeout = 0 under an unsupported configuration, and
\* such a writeback always stops it; the stop is an abort that returns
\* nothing to the caller (render() is void and returns only after the last
\* region entry). No other error kind stops the frame.
C5_ConfigAbort ==
    /\ pc = "aborted" =>
          /\ C5_Unsupported(regs)
          /\ entry.control.no_writeout = 0
          /\ ret = "none"
    /\ pc \in {"loop", "done"} =>
          (entry.control.no_writeout = 1 \/ ~C5_Unsupported(regs))
    /\ ret \in {"none", "void"}
    /\ ret = "void" <=> pc = "done"

C5_Witness ==
    /\ pc = "aborted"
    /\ regs.SCALER_CTL.interlace = 1
    /\ nread = 2
    /\ \E i \in DOMAIN log : log[i].mode = "RM_TRANSLUCENT_AUTOSORT"

\* C6: when the frame fails on the configuration at entry k (= nread), the
\* failing entry has written nothing and every tile written so far belongs
\* to an earlier entry that had no_writeout = 0.
C6_FailedFrameVram ==
    pc = "aborted" =>
        /\ nread \notin written
        /\ \A i \in written : i < nread /\ i \notin nowrite

C6_Witness == pc = "aborted" /\ nread = 2 /\ 1 \in nowrite

(***************************************************************************)
(* Properties of pvr_map32                                                 *)
(***************************************************************************)
BankOf(o) == (o \div VRAM_BANK_BIT) % 2

\* C3: the image of an aligned offset below 8 MiB lies below 8 MiB, and
\* within one bank the map is strictly increasing (so one-to-one).
C3_MapInRangeMonotonic ==
    mq.st = "out" =>
        /\ mq.r1 \in 0..(VRAM_SIZE - 1)
        /\ mq.r2 \in 0..(VRAM_SIZE - 1)
        /\ (mq.o1 < mq.o2 /\ BankOf(mq.o1) = BankOf(mq.o2)) => mq.r1 < mq.r2

C3_Witness ==
    /\ mq.st = "out"
    /\ mq.o1 < mq.o2
    /\ BankOf(mq.o1) = 1 /\ BankOf(mq.o2) = 1
    /\ mq.o2 = VRAM_MASK - 3

\* C4 as stated: mapping an aligned offset twice gives the offset back.
C4_Original == mq.st = "out" => mq.rr1 = mq.o1

\* de-interleaving: bit 2 of the physical offset is the bank, the bits
\* above it are the word address within the bank
C4_Unmap(p) == (p % 4) + ((p \div 8) * 4) + ((p \div 4) % 2) * VRAM_BANK_BIT

\* C4 amended: on aligned offsets below 8 MiB pvr_map32 is one-to-one and
\* is undone by de-interleaving, but it is not its own inverse: mapping
\* twice gives the offset back only at the fixed points 0 and 0x7FFFFC.
C4_MapInvertible ==
    mq.st = "out" =>
        /\ C4_Unmap(mq.r1) = mq.o1
        /\ mq.o1 # mq.o2 => mq.r1 # mq.r2
        /\ mq.rr1 = mq.o1 <=> mq.o1 \in {0, VRAM_MASK - 3}

C4_Witness ==
    /\ mq.st = "out"
    /\ mq.o1 = 4 /\ mq.r1 = 8 /\ mq.rr1 = 16
    /\ BankOf(mq.o2) = 1 /\ mq.r2 % 8 = 4

(***************************************************************************)
(* Properties of the pixel packing and of the twiddle tables               *)
(***************************************************************************)

\* C8: for every pixel position and colour the three quantized components,
\* before any clamping, lie in [0,31], [0,63], [0,31], and each can be read
\* back from its own field of the 16-bit pixel.
C8_DitherBounds ==
    dq.st = "out" =>
        /\ dq.raw[1] \in 0..31
        /\ dq.raw[2] \in 0..63
        /\ dq.raw[3] \in 0..31
        /\ dq.pixel % 32 = dq.raw[1]
        /\ (dq.pixel \div 32) % 64 = dq.raw[2]
        /\ dq.pixel \div 2048 = dq.raw[3]

C8_Witness ==
    /\ dq.st = "out"
    /\ dq.src[1] = 255 /\ dq.src[2] = 255
    /\ dq.x % 4 = 0 /\ dq.y % 4 = 3
    /\ dq.raw[1] = 31 /\ dq.raw[2] = 63

\* C9: for a square texture of side 1 << s the sum of the two table
\* entries equals twiddle_slow of the coordinates.
C9_TwiddleSum == tq.st = "looked" => tq.sum = tq.slow

C9_Witness ==
    /\ tq.st = "looked"
    /\ tq.s = 10 /\ tq.i = 1023 /\ tq.j = 512
    /\ tq.slow = 699050 + 262144

\* C10: the word read back at the address of an 8888 write is the word
\* written, and its bytes are the accumulator bytes r, g, b, a.
C10_RoundTrip8888 ==
    rq.st = "read" =>
        /\ rq.rd = rq.pixel
        /\ WordBytes(rq.rd) = rq.src

C10_Witness ==
    /\ rq.st = "read"
    /\ rq.addr = VRAM_BANK_BIT + 4 + VRAM_SIZE
    /\ rq.src = <<1, 128, 255, 0>>
    /\ rq.bg = 255
    /\ rq.rd = Word(32769, 255)

\* C7: in the translucent auto-sort peel of one region entry, at every pixel
\* the depth_ref an iteration starts with is greater than or equal to the
\* depth_ref the iteration before it started with
C7_PeelMonotonic ==
    (tile.st = "tile" /\ tile.iter >= 2) =>
        \A p \in Pixels : tile.depth_ref[p] >= tile.ref_before[p]

\* a third iteration whose depth_ref at some pixel is a second peeled layer
C7_Witness ==
    /\ tile.st = "tile"
    /\ tile.iter >= 3
    /\ \E p \in Pixels : /\ tile.ref_before[p] < tile.depth_ref[p]
                         /\ tile.depth_ref[p] < FLT_MAX
                         /\ tile.ref_before[p] > 0

\* C11: after RenderTriangle in RM_MODIFIER for a triangle of VolumeMode 1,
\* every pixel whose stencil bit 0 was set when the fold ran has bit 1 set,
\* every pixel has bit 0 clear, and a pixel that had bit 0 and bit 1 clear
\* then still has bit 1 clear.
C11_StencilOrFold ==
    (tile.st = "vol" /\ tile.done >= 1 /\ tile.vols[tile.done].VolumeMode = 1) =>
        \A p \in Pixels :
            /\ tile.mid[p].b0 = 1 => tile.stencil[p].b1 = 1
            /\ tile.stencil[p].b0 = 0
            /\ (tile.mid[p].b0 = 0 /\ tile.mid[p].b1 = 0) => tile.stencil[p].b1 = 0

\* the second of two OR volumes covering A and B separately
C11_Witness ==
    /\ tile.st = "vol"
    /\ tile.done = 2
    /\ tile.vols[1] = [cover |-> {"A"}, VolumeMode |-> 1]
    /\ tile.vols[2] = [cover |-> {"B"}, VolumeMode |-> 1]
    /\ tile.before["B"] = NoStencil
    /\ tile.stencil["A"].b1 = 1 /\ tile.stencil["B"].b1 = 1

\* the tags of the primitives of the list that cover pixel p, in list order
CoverInListOrder(l, tags, p) ==
    LET sel == SelectSeq([i \in 1..Len(l) |-> i], LAMBDA i : p \in DOMAIN l[i])
    IN  [k \in 1..Len(sel) |-> tags[sel[k]]]

\* the translucent block of a presorted entry has run
PresortDone ==
    tile.st = "tile" /\ pc = "writeback" /\ entry.control.pre_sort = 1

\* C12: in the presort pass the tag resolution of each primitive runs right
\* after its rasterization and before the rasterization of the next
\* primitive of the list, so every pixel is blended with the primitives
\* that cover it in the order of the list.
C12_PresortInline ==
    PresortDone =>
        /\ Len(tile.calls) = 2 * Len(tile.trans)
        /\ \A i \in 1..Len(tile.trans) :
              /\ tile.calls[2 * i - 1] =
                     RasterCall("RM_TRANSLUCENT_PRESORT", tile.tags[i])
              /\ tile.calls[2 * i].op = "RenderParamTags"
              /\ tile.calls[2 * i].mode = "RM_TRANSLUCENT_PRESORT"
        /\ \A p \in Pixels :
              tile.accum[p] = CoverInListOrder(tile.trans, tile.tags, p)

\* two primitives over pixel A, the first of the list with the greater tag
C12_Witness ==
    /\ PresortDone
    /\ Len(tile.trans) = 2
    /\ tile.tags = <<2, 1>>
    /\ tile.accum["A"] = <<2, 1>>
    /\ tile.accum["B"] = <<1>>

\* the primitives of the translucent list as a set: tag and fragments
PrimSet == { [tag |-> tile.tags[i], frag |-> tile.trans[i]] :
               i \in 1..Len(tile.trans) }

MaxOf(S) == CHOOSE m \in S : \A n \in S : n <= m

\* the tags of S, the greatest first
RECURSIVE TagsDescending(_)
TagsDescending(S) ==
    IF S = {} THEN <<>>
    ELSE <<MaxOf(S)>> \o TagsDescending(S \ {MaxOf(S)})

\* the layers of pixel p from depth z on: the primitives over p in
\* increasing depth, those of equal depth by decreasing tag
RECURSIVE LayersFrom(_, _, _)
LayersFrom(prims, p, z) ==
    IF z > MaxZ THEN <<>>
    ELSE LET c == { q.tag : q \in { r \in prims : p \in DOMAIN r.frag
                                                  /\ r.frag[p] = z } }
         IN  TagsDescending(c) \o LayersFrom(prims, p, z + 1)

\* the auto-sort peel of the entry has ended
AutosortDone ==
    tile.st = "tile" /\ pc = "writeback" /\ entry.control.pre_sort = 0

\* C13: the accum an auto-sort peel ends with depends only on the set of
\* primitives of the list, not on their order: each pixel is blended with
\* the primitives over it from the depth it started with, in increasing
\* depth, and among primitives of equal depth the one of greater tag first.
C13_AutosortOrderFree ==
    AutosortDone =>
        \A p \in Pixels :
            tile.accum[p] = LayersFrom(PrimSet, p, tile.depth_in[p])

\* two primitives of equal depth over pixel A, the one of greater tag
\* traversed last
C13_Witness ==
    /\ AutosortDone
    /\ Len(tile.trans) = 2
    /\ tile.tags = <<1, 2>>
    /\ "A" \in DOMAIN tile.trans[1] /\ "A" \in DOMAIN tile.trans[2]
    /\ tile.trans[1]["A"] = tile.trans[2]["A"]
    /\ tile.accum["A"] = <<2, 1>>

\* two primitives in the list, both over pixel p at the same depth, which is
\* above the depth the earlier passes left there
TwoCoplanarAt(p) ==
    /\ Len(tile.trans) = 2
    /\ p \in DOMAIN tile.trans[1] /\ p \in DOMAIN tile.trans[2]
    /\ tile.trans[1][p] = tile.trans[2][p]
    /\ tile.trans[1][p] > tile.depth_in[p]

\* C14 as stated: for two quads of equal depth at a pixel the auto-sort peel
\* blends both in list order, as the presort pass does.
C14_Original ==
    AutosortDone =>
        \A p \in Pixels :
            TwoCoplanarAt(p) => tile.accum[p] = <<tile.tags[1], tile.tags[2]>>

\* C14 amended: for two quads of equal depth at a pixel both renderings
\* blend both quads, the presort pass in list order and the auto-sort peel
\* in the order of decreasing tag, whatever the list order.
C14_CoplanarQuads ==
    \A p \in Pixels :
        TwoCoplanarAt(p) =>
            /\ PresortDone => tile.accum[p] = <<tile.tags[1], tile.tags[2]>>
            /\ AutosortDone =>
                  tile.accum[p] = TagsDescending({tile.tags[1], tile.tags[2]})

\* the auto-sort peel of two coplanar quads listed in increasing tag order
\* has blended the second of the list first
C14_Witness ==
    /\ AutosortDone
    /\ TwoCoplanarAt("A")
    /\ tile.tags = <<1, 2>>
    /\ tile.depth_in["A"] = 0
    /\ tile.accum["A"] = <<2, 1>>
    /\ tile.iter = 3

\* the second entry of the frame, a z_keep entry without lists, has written
\* the tile the first entry wrote
KeptTileRewritten ==
    /\ tile.st = "frame"
    /\ pc = "loop"
    /\ nread = 2
    /\ written = {1, 2}
    /\ entry.control.z_keep = 1
    /\ entry.opaque.empty = 1

C16_WritebackOnly ==
    [][/\ regs' = regs
       /\ (tile.st = "frame" /\ tile'.wr # tile.wr)
             => (pc = "writeback" /\ entry.control.no_writeout = 0)]_vars

\* an entry with no_writeout = 1 rendered its opaque list after another
\* entry wrote its tile
C16_Witness ==
    /\ tile.st = "frame"
    /\ pc = "loop"
    /\ nread = 2
    /\ entry.control.no_writeout = 1
    /\ entry.opaque.empty = 0
    /\ written = {1}
    /\ Len(tile.wr) = 1
    /\ tile.accum["A"] # <<>>

\* the bytes of VRAM a writeback wrote
BytesOf(w) == UNION { (w[i].addr)..(w[i].addr + w[i].size - 1) : i \in 1..Len(w) }

\* the tile lies within one line of the frame buffer
TileInLine(r, c) == (c.tilex + 1) * 32 * Bpp(r) <= r.stride * 8

\* two entries with different tiles have been written back
TwoTilesWritten ==
    /\ tile.st = "frame"
    /\ pc = "loop"
    /\ written = {1, 2}
    /\ <<tile.wr[1].control.tilex, tile.wr[1].control.tiley>>
         # <<tile.wr[2].control.tilex, tile.wr[2].control.tiley>>

\* C17 as stated: two writebacks of different tiles write disjoint bytes.
C17_Original ==
    TwoTilesWritten => BytesOf(tile.wr[1].w) \cap BytesOf(tile.wr[2].w) = {}

\* C17 amended: two writebacks of different tiles write disjoint bytes when
\* both tiles lie within one line of the frame buffer, that is when
\* (tilex + 1) * 32 * bpp <= stride * 8.
C17_TilesDisjoint ==
    (/\ TwoTilesWritten
     /\ TileInLine(regs, tile.wr[1].control)
     /\ TileInLine(regs, tile.wr[2].control))
        => BytesOf(tile.wr[1].w) \cap BytesOf(tile.wr[2].w) = {}

\* the tiles (1, 0) and (0, 1) were written across the end of VRAM in
\* lines of five tiles
C17_Witness ==
    /\ TwoTilesWritten
    /\ regs.fb_packmode = 1
    /\ regs.stride = 80
    /\ tile.wr[1].control.tilex = 1
    /\ tile.wr[2].control.tilex = 0
    /\ tile.wr[2].control.tiley = 1
    /\ BytesOf(tile.wr[1].w) \cap BytesOf(tile.wr[2].w) = {}

\* the logical address RenderCORE writes the pixel (x, y) of a tile at
PixelAddr(r, c, x, y) ==
    r.FB_W_SOF1 + c.tilex * 32 * Bpp(r) + c.tiley * 32 * r.stride * 8
        + y * r.stride * 8 + x * Bpp(r)

\* C18: a writeback makes 1024 writes, one per pixel; the write of the pixel
\* (x, y) goes to pvr_map32 of SOF + tilex*32*bpp + tiley*32*stride*8 +
\* y*stride*8 + x*bpp and has bpp bytes, bpp being 2 in pack mode 1 and 4 in
\* pack mode 6.  Checked of each writeback when it has just been made.
C18_WritebackAddresses ==
    (tile.st = "frame" /\ pc = "loop" /\ nread \in written) =>
        LET e == tile.wr[Len(tile.wr)]
        IN  /\ e.n = nread
            /\ Len(e.w) = 32 * 32
            /\ \A y \in 0..31, x \in 0..31 :
                  LET wx == e.w[y * 32 + x + 1]
                  IN  /\ wx.addr = pvr_map32(PixelAddr(regs, entry.control, x, y))
                      /\ wx.size = (IF regs.fb_packmode = 1 THEN 2 ELSE 4)

\* a tile off the origin was written in pack mode 1 across the end of VRAM
C18_Witness ==
    /\ tile.st = "frame"
    /\ regs.fb_packmode = 1
    /\ regs.FB_W_SOF1 = VRAM_SIZE - 2048
    /\ pc = "loop"
    /\ nread \in written
    /\ entry.control.tilex = 1
    /\ entry.control.tiley = 1
    /\ Len(tile.wr[Len(tile.wr)].w) = 1024

\* a punch-through tag resolution has just run
PtResolved == tile.st = "pt" /\ pc = "pt_loop" /\ tile.iter >= 1

\* the pixel was to be shaded when the last tag resolution started
PtPending(p) ==
    tile.before.status[p] = 1 /\ tile.before.tag[p] \notin {TagBg, TagMax}

\* C19: after a punch-through tag resolution, a pixel that was to be shaded
\* with an alpha below PT_ALPHA_REF has the accum it had, no tag and its
\* status reset, and its depth is the one the earlier passes left, so that
\* a later iteration can cover it; a pixel shaded with an alpha at or above
\* the reference has the tag blended into accum, and from then on keeps its
\* accum: every pixel is blended with at most one punch-through primitive.
C19_PunchThroughHoles ==
    /\ PtResolved =>
          \A p \in Pixels :
              PtPending(p) =>
                  IF tile.pt[tile.before.tag[p]].alpha < tile.PT_ALPHA_REF
                    THEN /\ tile.accum[p] = tile.before.accum[p]
                         /\ tile.tag[p] = TagBg
                         /\ tile.status[p] = 0
                         /\ tile.depth_test[p] = tile.depth_in[p]
                    ELSE /\ tile.accum[p] =
                               Append(tile.before.accum[p], tile.before.tag[p])
                         /\ tile.status[p] = 0
    /\ tile.st = "pt" =>
          \A p \in Pixels :
              /\ Len(tile.accum[p]) <= 1
              /\ Len(tile.before.accum[p]) = 1 => tile.accum[p] = tile.before.accum[p]

\* pixel A was a Z hole of the first primitive and was then covered by the
\* second, behind it, in a later iteration
C19_Witness ==
    /\ PtResolved
    /\ tile.iter = 2
    /\ Len(tile.pt) = 2
    /\ tile.pt[1].alpha < tile.PT_ALPHA_REF
    /\ "A" \in DOMAIN tile.pt[1].frag /\ "A" \in DOMAIN tile.pt[2].frag
    /\ tile.pt[2].frag["A"] < tile.pt[1].frag["A"]
    /\ tile.accum["A"] = <<2>>

\* C20: every entry read has step 20 in the 5-word format and 24 in the
\* 6-word format; in the 5-word format its punch-through pointer is the empty
\* pointer 0x80000000 and its pre_sort is ISP_FEED_CFG.pre_sort, whatever the
\* word at base+20 and bit 29 of the control word are; in the 6-word format
\* its punch-through pointer is the word at base+20 and its pre_sort is bit
\* 29 of the control word; the first entry is read at REGION_BASE and every
\* later one at the base of the one before plus its step.
C20_RegionEntryFormat ==
    aq.st \in {"read", "done"} =>
        \A i \in 1..Len(aq.reads) :
            LET rd == aq.reads[i]
                w0 == vri(aq.vram, aq.bg, rd.base)
                w5 == vri(aq.vram, aq.bg, rd.base + 20)
            IN  /\ rd.base = IF i = 1 THEN aq.REGION_BASE
                              ELSE aq.reads[i - 1].base + aq.reads[i - 1].step
                /\ IF regs.region_header_type = 0
                     THEN /\ rd.step = 20
                          /\ rd.entry.puncht = Word(0, 32768)
                          /\ RegionArrayEntryControl(rd.entry.control).pre_sort
                                = regs.feed_pre_sort
                     ELSE /\ rd.step = 24
                          /\ rd.entry.puncht = w5
                          /\ RegionArrayEntryControl(rd.entry.control).pre_sort
                                = (w0.hi \div 8192) % 2

\* two entries were read in the 5-word format; the word at base+20 of the
\* first is not the empty pointer and bit 29 of its control word differs from
\* ISP_FEED_CFG.pre_sort
C20_Witness ==
    /\ aq.st \in {"read", "done"}
    /\ Len(aq.reads) = 2
    /\ regs.region_header_type = 0
    /\ vri(aq.vram, aq.bg, aq.reads[1].base + 20) # Word(0, 32768)
    /\ (vri(aq.vram, aq.bg, aq.reads[1].base).hi \div 8192) % 2 # regs.feed_pre_sort
    /\ aq.reads[2].base = aq.REGION_BASE + 20

\* the clear step of an entry over the tile buffers is about to run
AtClear == tile.st = "frame" /\ pc = "clear"

\* the buffers a z_keep entry keeps are those the previous entry left
KeepsBuffers ==
    /\ tile'.depth_test = tile.depth_test
    /\ tile'.stencil = tile.stencil
    /\ tile'.tag = tile.tag
    /\ tile'.accum = tile.accum
    /\ \A p \in Pixels : tile'.status[p] = 0

\* C21 as stated: the clear step of an entry with z_keep=0 sets depth to
\* FLT_MAX, stencil and status to 0 and every tag to the background tag; with
\* z_keep=1 it resets status only
C21_Original ==
    [][AtClear =>
          IF entry.control.z_keep = 0
            THEN \A p \in Pixels : /\ tile'.depth_test[p] = FLT_MAX
                                    /\ tile'.stencil[p] = NoStencil
                                    /\ tile'.status[p] = 0
                                    /\ tile'.tag[p] = TagBg
            ELSE KeepsBuffers]_vars

\* C21: the clear step of an entry with z_keep=0 sets depth to ISP_BACKGND_D,
\* stencil and status to 0 and every tag to the background tag, before any
\* list is traversed; with z_keep=1 it resets status only, and depth,
\* stencil, tag and accum are those the previous entry left
C21_ClearStep ==
    [][AtClear =>
          IF entry.control.z_keep = 0
            THEN \A p \in Pixels : /\ tile'.depth_test[p] = tile.ISP_BACKGND_D
                                    /\ tile'.stencil[p] = NoStencil
                                    /\ tile'.status[p] = 0
                                    /\ tile'.tag[p] = TagBg
            ELSE KeepsBuffers]_vars

\* the second entry has z_keep=1 and has been through its clear step: the
\* tile holds the triangle of the first entry, which was cleared to a
\* background depth below FLT_MAX
C21_Witness ==
    /\ tile.st = "frame" /\ pc = "opaq" /\ nread = 2
    /\ entry.control.z_keep = 1
    /\ tile.ISP_BACKGND_D # FLT_MAX
    /\ tile.tag["A"] # TagBg
    /\ tile.accum["A"] # <<>>

\* C22: after the clear step of every entry, stencil bits 1 and 2 of every
\* pixel are zero
C22_StencilZeroBetweenTiles ==
    (tile.st = "frame" /\ pc = "opaq") =>
        \A p \in Pixels : tile.stencil[p].b1 = 0 /\ tile.stencil[p].b2 = 0

\* the call c is in the log of the current entry
Logged(c) == \E i \in 1..Len(log) : log[i] = c

\* the opaque block and the opaque tag resolution of the entry are behind
PastOpaque == pc \in {"pt", "pt_loop", "pt_mod", "tr", "tr_as", "writeback", "loop"}

\* C23 as stated: an entry with an empty opaque list has no RM_OPAQUE
\* traversal, no opaque-modifier traversal and no RM_OPAQUE tag resolution
C23_Original ==
    (nread > 0 /\ entry.opaque.empty = 1) =>
        /\ ~Logged(Traverse("RM_OPAQUE", "opaque"))
        /\ ~Logged(Traverse("RM_MODIFIER", "opaque_mod"))
        /\ ~Logged(Tags("RM_OPAQUE"))

\* C23: an entry with an empty opaque list has no RM_OPAQUE traversal and no
\* traversal of the opaque modifier list in its opaque block (none before
\* the RM_OPAQUE tag resolution); the RM_OPAQUE tag resolution is run, once
C23_OpaqueSkipped ==
    (nread > 0 /\ entry.opaque.empty = 1) =>
        /\ ~Logged(Traverse("RM_OPAQUE", "opaque"))
        /\ \A i \in 1..Len(log) :
              log[i] = Traverse("RM_MODIFIER", "opaque_mod") =>
                  \E j \in 1..(i - 1) : log[j] = Tags("RM_OPAQUE")
        /\ PastOpaque =>
              Cardinality({ i \in 1..Len(log) : log[i] = Tags("RM_OPAQUE") }) = 1

\* an entry with no opaque list but an opaque modifier list has been through
\* its passes
C23_Witness ==
    /\ pc = "loop"
    /\ entry.opaque.empty = 1
    /\ entry.opaque_mod.empty = 0
    /\ Logged(Tags("RM_OPAQUE"))

\* C24: every byte a writeback writes lies inside [0, 8 MiB), whatever the
\* frame buffer base is
C24_BytesInVram ==
    (tile.st = "frame" /\ pc = "loop" /\ nread \in written) =>
        LET w == tile.wr[Len(tile.wr)].w
        IN  \A k \in 1..Len(w) :
                0 <= w[k].addr /\ w[k].addr + w[k].size - 1 < VRAM_SIZE

\* the positions of the log holding a traversal of the punch-through list
PtTraversals ==
    { i \in 1..Len(log) : log[i].op = "RenderObjectList" /\ log[i].list = "puncht" }

\* C25: of the traversals of the punch-through list of an entry, the first
\* is in RM_PUNCHTHROUGH_PASS0 and every later one in RM_PUNCHTHROUGH_PASSN;
\* a tag resolution that follows a traversal of the list, with no other
\* traversal between, is in RM_PUNCHTHROUGH_PASS0
C25_PunchThroughModes ==
    /\ \A i \in PtTraversals :
          log[i].mode = IF \A j \in PtTraversals : i <= j
                          THEN "RM_PUNCHTHROUGH_PASS0"
                          ELSE "RM_PUNCHTHROUGH_PASSN"
    /\ \A i \in PtTraversals, j \in 1..Len(log) :
          (/\ i < j
           /\ log[j].op = "RenderParamTags"
           /\ \A k \in (i + 1)..(j - 1) : log[k].op # "RenderObjectList")
              => log[j].mode = "RM_PUNCHTHROUGH_PASS0"

\* the punch-through list of an entry was traversed three times and its tags
\* were resolved after the second traversal
C25_Witness ==
    /\ pc = "pt_mod"
    /\ Cardinality(PtTraversals) = 3
    /\ Cardinality({ i \in 1..Len(log) : log[i] = Tags("RM_PUNCHTHROUGH_PASS0") }) = 2

\* the positions of the log holding the RM_PUNCHTHROUGH_MV tag resolution
MvResolutions == { i \in 1..Len(log) : log[i] = Tags("RM_PUNCHTHROUGH_MV") }

\* the punch-through block of the entry is behind
PastPunchThrough == pc \in {"tr", "tr_as", "writeback", "loop"}

\* C27: the RM_PUNCHTHROUGH_MV tag resolution always directly follows an
\* RM_MODIFIER traversal of the modifier list and no punch-through
\* traversal or tag resolution comes after it; once the punch-through block
\* is behind it has run once if the punch-through list and the modifier list
\* of the entry (entry.opaque_mod) are both present, and not at all if
\* either is empty
C27_PunchThroughModifier ==
    /\ \A i \in MvResolutions :
          /\ i > 1 /\ log[i - 1] = Traverse("RM_MODIFIER", "opaque_mod")
          /\ \A j \in (i + 1)..Len(log) :
                /\ j \notin PtTraversals
                /\ log[j] # Tags("RM_PUNCHTHROUGH_PASS0")
    /\ (nread > 0 /\ PastPunchThrough) =>
          Cardinality(MvResolutions) =
              IF entry.puncht.empty = 0 /\ entry.opaque_mod.empty = 0 THEN 1 ELSE 0
    /\ (nread > 0 /\ entry.puncht.empty = 1) => MvResolutions = {}

\* after a peel of three traversals the modifier list was traversed and the
\* RM_PUNCHTHROUGH_MV tag resolution run
C27_Witness ==
    /\ pc = "tr"
    /\ Cardinality(PtTraversals) = 3
    /\ Cardinality(MvResolutions) = 1
    /\ entry.trans_mod.empty = 1

\* the tag resolutions made on the tile so far
TagResolutions(t) ==
    Cardinality({ i \in 1..Len(t.calls) : t.calls[i].op = "RenderParamTags" })

\* an iteration of the while loop of the punch-through peel is run
PtLoopStep == tile.st = "pt" /\ pc = "pt_loop" /\ more_to_draw # 0

\* the first iteration of the punch-through peel is run
PtFirstStep == tile.st = "pt" /\ pc = "pt" /\ entry.puncht.empty = 0

\* the iteration ends after its traversal: depth_ref is not copied and no
\* tag resolution is run
PtExitAfter(t) ==
    /\ tile'.depth_ref = t.depth_ref
    /\ TagResolutions(tile') = TagResolutions(tile)

\* the iteration copies the depth_test of the traversal into depth_ref and
\* runs one tag resolution
PtCopyAndResolve(t) ==
    /\ tile'.depth_ref = t.depth_test
    /\ TagResolutions(tile') = TagResolutions(tile) + 1

\* C26 as stated: in every iteration, the first included, a traversal that
\* wrote no pixel ends the peel without the copy and the tag resolution
C26_Original ==
    [][/\ PtLoopStep =>
            IF PtTraverseN(tile).more = 0
              THEN pc' = "pt_mod" /\ PtExitAfter(PtTraverseN(tile))
              ELSE PtCopyAndResolve(PtTraverseN(tile))
       /\ PtFirstStep =>
            IF PtTraverse0(tile).more = 0
              THEN PtExitAfter(PtTraverse0(tile))
              ELSE PtCopyAndResolve(PtTraverse0(tile))]_vars

\* C26: in every iteration of the while loop, a traversal that wrote no
\* pixel ends the peel without the copy of depth_test into depth_ref and
\* without tag resolution, and one that wrote a pixel is followed by both;
\* the first iteration makes the copy and runs the tag resolution whether
\* its traversal wrote a pixel or not
C26_ExitWithoutCopy ==
    [][/\ PtLoopStep =>
            IF PtTraverseN(tile).more = 0
              THEN pc' = "pt_mod" /\ PtExitAfter(PtTraverseN(tile))
              ELSE PtCopyAndResolve(PtTraverseN(tile))
       /\ PtFirstStep => PtCopyAndResolve(PtTraverse0(tile))]_vars

\* the peel was left by the break of its second loop iteration, after two
\* tag resolutions
C26_Witness ==
    /\ tile.st = "pt" /\ pc = "pt_mod"
    /\ tile.brk = 1
    /\ tile.iter = 2
    /\ TagResolutions(tile) = 2

\* the tag resolution the step ends with made a Z hole
HoleMade ==
    \E p \in Pixels :
        /\ tile'.before.status[p] = 1
        /\ tile'.before.tag[p] \notin {TagBg, TagMax}
        /\ tile'.pt[tile'.before.tag[p]].alpha < tile'.PT_ALPHA_REF

\* C29: after an iteration of the while loop that ran its tag resolution,
\* more_to_draw is set exactly if that tag resolution made a Z hole; after
\* the first iteration it is set exactly if the traversal wrote a pixel or
\* the tag resolution made a Z hole; with more_to_draw clear no further
\* iteration is run
C29_NextIteration ==
    [][/\ (PtLoopStep /\ PtTraverseN(tile).more = 1) =>
            (more_to_draw' = 1 <=> HoleMade)
       /\ PtFirstStep =>
            (more_to_draw' = 1 <=> (PtTraverse0(tile).more = 1 \/ HoleMade))
       /\ (tile.st = "pt" /\ pc = "pt_loop" /\ more_to_draw = 0) =>
            (pc' = "pt_mod" /\ tile' = tile /\ log' = log)]_vars

\* the second iteration wrote pixel A and its tag resolution made no hole:
\* more_to_draw is clear
C29_Witness ==
    /\ tile.st = "pt" /\ pc = "pt_loop"
    /\ tile.iter = 2
    /\ tile.before.status["A"] = 1
    /\ tile.accum["A"] # <<>>
    /\ more_to_draw = 0

\* the number of primitives of the translucent list that cover pixel p
CoverCount(p) ==
    Cardinality({ i \in 1..Len(tile.trans) : p \in DOMAIN tile.trans[i] })

\* L: the greatest number of primitives over one pixel
MaxCover == CHOOSE n \in 0..Len(tile.trans) :
                /\ \A p \in Pixels : CoverCount(p) <= n
                /\ \E p \in Pixels : CoverCount(p) = n

\* C28: the auto-sort peel of a translucent list that covers no pixel with
\* more than L primitives runs at most L+1 iterations, and the translucent
\* block is left with more_to_draw clear
C28_PeelTerminates ==
    /\ [](tile.st = "tile" => tile.iter <= MaxCover + 1)
    /\ <>(pc = PcAfter("tr") /\ more_to_draw = 0)

\* the peel of two primitives over pixel A has ended after three iterations
C28_Witness ==
    /\ tile.st = "tile" /\ pc = PcAfter("tr")
    /\ entry.control.pre_sort = 0
    /\ CoverCount("A") = 2
    /\ tile.iter = 3
    /\ more_to_draw = 0

\* the word RenderObjectList read last, as stored in VRAM
LastWord == vri(oq.vram, oq.bg, oq.last.addr)

LastIsLink == LastWord.hi >= 57344

LastIsEndLink == LastWord.hi >= 61440

\* the address a link word points to: bits 2..23 of the word, times four
LinkTarget(w) == 4 * ((w.lo \div 4) + 16384 * (w.hi % 256))

\* C30: RenderObjectList returns only on reading a link with end_of_list; a
\* link without end_of_list moves the reading to next_block_ptr_in_words*4
\* and every other entry to the next word; once an address is read a second
\* time the traversal never returns
C30_ObjectListWalk ==
    oq.st \in {"walk", "returned"} /\ oq.last # Idle =>
        /\ oq.st = "returned" <=> LastIsEndLink
        /\ oq.st = "walk" /\ LastIsLink => oq.base = LinkTarget(LastWord)
        /\ ~LastIsLink => oq.base = oq.last.addr + 4
        /\ oq.revisit => oq.st = "walk"

\* a link without end_of_list has led back to an address already read
C30_Witness ==
    /\ oq.st = "walk" /\ oq.last # Idle
    /\ LastIsLink /\ ~LastIsEndLink
    /\ oq.base \in oq.seen
    /\ oq.revisit

\* the addresses of the list whose word has bit 31 set and a type other
\* than 0b100, 0b101 and 0b111
UnknownTypeAddrs ==
    { a \in ObjAddrs : LET h == vri(oq.vram, oq.bg, a).hi
                       IN  h >= 32768 /\ (h \div 8192) \notin {4, 5, 7} }

\* C31: an entry with bit 31 set and a type other than 0b100, 0b101, 0b111
\* is never handed to a Render* function and changes no tile buffer; after
\* it the traversal reads the following word and the frame is not aborted
C31_UnknownTypeSkipped ==
    oq.st \in {"walk", "returned"} =>
        /\ oq.rendered \cap UnknownTypeAddrs = {}
        /\ oq.last # Idle /\ oq.last.addr \in UnknownTypeAddrs =>
              /\ oq.last.call \notin RenderCalls
              /\ oq.st = "walk"
              /\ oq.base = oq.last.addr + 4
              /\ tile = Idle
              /\ pc # "aborted"
        /\ \A err \in LocalErrors : ~TraversalStops(err)

\* an entry of type 0b110 was read after a strip was rendered
C31_Witness ==
    /\ oq.st = "walk" /\ oq.last # Idle
    /\ oq.last.addr \in UnknownTypeAddrs
    /\ oq.rendered # {}

\* the strip has been run through
StripDone == oq.st = "strip" /\ oq.i = 6

\* the positions of the triangles emitted
EmittedAt == { oq.emitted[k].i : k \in 1..Len(oq.emitted) }

\* the mask of the strip entry, bits 25..30 of the word
StripMask == (oq.obj.hi \div 512) % 64

\* the number of set bits of a 6-bit mask
PopCount6(m) == Cardinality({ b \in 0..5 : (m \div (2 ^ b)) % 2 = 1 })

\* C32 as stated: triangle i is emitted if and only if bit i of the mask is set
C32_Original ==
    StripDone =>
        /\ \A j \in 0..5 : j \in EmittedAt <=> (StripMask \div (2 ^ j)) % 2 = 1
        /\ Len(oq.emitted) = PopCount6(StripMask)

\* C32 amended: triangle i is emitted if and only if bit 5-i of the mask is
\* set (bit 5 selects triangle 0); the number of triangles emitted is the
\* number of set bits of the mask
C32_MaskSelects ==
    StripDone =>
        /\ \A j \in 0..5 : j \in EmittedAt <=> (StripMask \div (2 ^ (5 - j))) % 2 = 1
        /\ Len(oq.emitted) = PopCount6(StripMask)

\* a strip with only bit 5 of the mask set has emitted triangle 0 alone
C32_Witness ==
    /\ StripDone
    /\ StripMask = 32
    /\ EmittedAt = {0}

\* the fields of the strip entry whose triangles are emitted
StripObj == ObjectListTstrip(oq.obj)

\* C33: an emitted triangle at position i uses the vertices i + (i&1),
\* i + 1 - (i&1) and i + 2, three different indices within 0..7; its tag
\* holds tag_offset i and the param offset, skip and shadow of the strip
\* entry; positions are emitted in increasing order and no two triangles of
\* the strip have the same tag
C33_StripTriangles ==
    oq.st = "strip" =>
        /\ \A k \in 1..Len(oq.emitted) :
              LET t == oq.emitted[k]
                  f == TagFields(t.tag)
              IN  /\ t.vtx = <<t.i + (t.i % 2), t.i + 1 - (t.i % 2), t.i + 2>>
                  /\ Cardinality({t.vtx[1], t.vtx[2], t.vtx[3]}) = 3
                  /\ \A n \in 1..3 : t.vtx[n] \in 0..7
                  /\ f.tag_offset = t.i
                  /\ f.param_offs_in_words = StripObj.param_offs_in_words
                  /\ f.skip = StripObj.skip
                  /\ f.shadow = StripObj.shadow
        /\ \A k, l \in 1..Len(oq.emitted) :
              k < l => /\ oq.emitted[k].i < oq.emitted[l].i
                       /\ oq.emitted[k].tag # oq.emitted[l].tag

\* all six triangles of a strip at the highest param offset were emitted
C33_Witness ==
    /\ StripDone
    /\ Len(oq.emitted) = 6
    /\ StripObj.param_offs_in_words = 2097151
    /\ StripObj.skip = 7 /\ StripObj.shadow = 1

\* C35: the five fields read back from a tag are the fields it was made
\* from, different descriptions give different tags, and bits 29 to 31 of a
\* tag are zero
C35_TagLossless ==
    oq.st = "tag" =>
        /\ TagFields(oq.ta) = oq.a
        /\ oq.a # oq.b => oq.ta # oq.tb
        /\ oq.ta.hi < 8192 /\ oq.ta.lo \in 0..65535

\* two descriptions that differ only in cache_bypass got different tags
C35_Witness ==
    /\ oq.st = "tag"
    /\ oq.a.cache_bypass # oq.b.cache_bypass
    /\ [oq.a EXCEPT !.cache_bypass = 0] = [oq.b EXCEPT !.cache_bypass = 0]
    /\ oq.a.param_offs_in_words = 2097151 /\ oq.a.tag_offset = 7
    /\ oq.ta # oq.tb

\* the fields of the array entry being rendered
ArrayObj == ObjectListTarray(oq.obj)

\* the array has been run through
PrimArrayDone == oq.st = "array" /\ oq.i = ArrayObj.prims + 1

\* PARAM_BASE & 0xF00000: bits 20..23 of the register
ArrayParamBase == ((oq.PARAM_BASE \div 1048576) % 16) * 1048576

\* the bytes of a parameter block of the array
ArrayBlockBytes ==
    4 * BlockWords(ArrayObj.skip,
                   ArrayObj.shadow = 1 /\ oq.intensity_shadow = 0,
                   IF ArrayObj.type = 4 THEN 3 ELSE 4)

\* primitive k was read where primitive k-1 ended, the first at param_base +
\* param_offs_in_words*4; the array ends after prims+1 primitives
ArrayBlocksChained ==
    /\ Len(oq.emitted) = oq.i /\ oq.i <= ArrayObj.prims + 1
    /\ ArrayObj.prims + 1 \in 1..16
    /\ \A k \in 1..Len(oq.emitted) :
          /\ oq.emitted[k].tag_address =
                ArrayParamBase + ArrayObj.param_offs_in_words * 4
                  + (k - 1) * ArrayBlockBytes
          /\ oq.emitted[k].nvtx = (IF ArrayObj.type = 4 THEN 3 ELSE 4)
          /\ TagFields(oq.emitted[k].tag).tag_offset = 0
          /\ TagFields(oq.emitted[k].tag).skip = ArrayObj.skip
          /\ TagFields(oq.emitted[k].tag).shadow = ArrayObj.shadow

\* C34 as stated: the tag holds the word offset of the block of its primitive
C34_Original ==
    oq.st = "array" =>
        /\ ArrayBlocksChained
        /\ \A k \in 1..Len(oq.emitted) :
              TagFields(oq.emitted[k].tag).param_offs_in_words =
                 (oq.emitted[k].tag_address - ArrayParamBase) \div 4

\* C34 amended: the arrays render prims+1 primitives, primitive k is read
\* where primitive k-1 ended, and the tag holds tag_offset 0 and the word
\* offset of the block of its primitive modulo 2^21
C34_ArrayBlocks ==
    oq.st = "array" =>
        /\ ArrayBlocksChained
        /\ \A k \in 1..Len(oq.emitted) :
              TagFields(oq.emitted[k].tag).param_offs_in_words =
                 ((oq.emitted[k].tag_address - ArrayParamBase) \div 4) % 2097152

\* a quad array of sixteen quads has been rendered
C34_Witness ==
    /\ PrimArrayDone
    /\ ArrayObj.type = 5
    /\ Len(oq.emitted) = 16
    /\ oq.emitted[16].tag_address > oq.emitted[1].tag_address
    /\ ArrayParamBase = 1048576

\* the passes of the current entry have run: the opaque tag resolution and
\* the traversals of its non-empty opaque and translucent lists are logged
PassesLogged ==
    /\ Logged(Tags("RM_OPAQUE"))
    /\ entry.opaque.empty = 0 => Logged(Traverse("RM_OPAQUE", "opaque"))
    /\ entry.trans.empty = 0 => \E i \in 1..Len(log) : log[i].list = "trans"

\* C36: the frame is stopped on the configuration only at the writeback of
\* an entry with no_writeout = 0, after the passes of that entry; while all
\* entries read have no_writeout = 1 the frame is not stopped, whatever the
\* register configuration
C36_ChecksAtWriteback ==
    /\ [][pc' = "aborted" =>
            /\ pc = "writeback"
            /\ entry.control.no_writeout = 0
            /\ PassesLogged]_vars
    /\ [](nowrite = 1..nread => pc # "aborted")

\* a frame of two entries with no_writeout = 1 has returned under a
\* configuration with interlace set
C36_Witness ==
    /\ pc = "done"
    /\ nread = 2 /\ nowrite = {1, 2}
    /\ regs.SCALER_CTL.interlace = 1

\* C37: every writeback that wrote a pixel wrote the first pixel of its tile
\* at FB_W_SOF1 plus the offset of the tile and not at FB_W_SOF2; with
\* SCALER_CTL.interlace set, the only case in which FB_W_SOF2 is selected,
\* nothing is written
C37_WritebackUsesSof1 ==
    tile.st = "frame" =>
        /\ \A k \in 1..Len(tile.wr) :
              /\ tile.wr[k].w # <<>>
              /\ tile.wr[k].w[1].addr =
                    pvr_map32(regs.FB_W_SOF1 + OffsetBytes(regs, tile.wr[k].control))
              /\ tile.wr[k].w[1].addr #
                    pvr_map32(regs.FB_W_SOF2 + OffsetBytes(regs, tile.wr[k].control))
        /\ written # {} => tile.wr # <<>>
        /\ regs.SCALER_CTL.interlace = 1 => tile.wr = <<>> /\ written = {}

\* a tile was written with fieldselect set and interlace clear
C37_Witness ==
    /\ tile.st = "frame"
    /\ pc = "loop"
    /\ regs.fieldselect = 1 /\ regs.SCALER_CTL.interlace = 0
    /\ regs.FB_W_SOF1 # regs.FB_W_SOF2
    /\ nread \in written
    /\ Len(tile.wr[Len(tile.wr)].w) = 1024

\* the sampled coordinates below the width and the height of the texture
TwopXs == { k \in TwTableIndices : k < 8 * Pow2(tq.bcx) }

TwopYs == { k \in TwTableIndices : k < 8 * Pow2(tq.bcy) }

\* the texture of the lookup is small enough to have all its texels sampled
TwopAllSampled == 8 * Pow2(tq.bcx) <= TwFull /\ 8 * Pow2(tq.bcy) <= TwFull

\* the value of twop at (x, y) in the texture of the lookup
TwopAt(x, y) ==
    twop(tq.detwiddle, x, y, tq.bcx, tq.bcy)[1]
      + twop(tq.detwiddle, x, y, tq.bcx, tq.bcy)[2]

\* C38: for the texture of 8 << bcx by 8 << bcy texels twop(x, y, bcx, bcy)
\* is twiddle_slow(x, y, 8 << bcx, 8 << bcy), its two table terms share no
\* set bit, and (x, y) -> twop is one-to-one into [0, width*height) and onto
\* it (one-to-one on the sampled coordinates, onto where every texel of the
\* texture is sampled; both are evaluated once per texture size, in the
\* lookup of the texel (0, 0))
C38_TwopTwiddle ==
    tq.st = "twop" =>
        /\ tq.sum = tq.slow
        /\ BitAnd(tq.terms[1], tq.terms[2]) = 0
        /\ tq.sum \in 0..(64 * Pow2(tq.bcx) * Pow2(tq.bcy) - 1)
        /\ (tq.x = 0 /\ tq.y = 0) =>
              /\ \A x1 \in TwopXs, y1 \in TwopYs :
                    BitAnd(twop(tq.detwiddle, x1, y1, tq.bcx, tq.bcy)[1],
                           twop(tq.detwiddle, x1, y1, tq.bcx, tq.bcy)[2]) = 0
              /\ \A x1, x2 \in TwopXs :
                    x1 # x2 => twop(tq.detwiddle, x1, 0, tq.bcx, tq.bcy)[1]
                                 # twop(tq.detwiddle, x2, 0, tq.bcx, tq.bcy)[1]
              /\ \A y1, y2 \in TwopYs :
                    y1 # y2 => twop(tq.detwiddle, 0, y1, tq.bcx, tq.bcy)[2]
                                 # twop(tq.detwiddle, 0, y2, tq.bcx, tq.bcy)[2]
              /\ TwopAllSampled =>
                    { TwopAt(x1, y1) : x1 \in TwopXs, y1 \in TwopYs }
                       = 0..(64 * Pow2(tq.bcx) * Pow2(tq.bcy) - 1)

\* the last texel of a texture of 1024 by 8 texels was looked up
C38_Witness ==
    /\ tq.st = "twop"
    /\ tq.bcx = 7 /\ tq.bcy = 0
    /\ tq.x = 1023 /\ tq.y = 7
    /\ tq.sum = 8191

\* the bytes of the unpacked word, lowest first, and the 4-bit field of the
\* texel each of them comes from
UnpackedBytes == WordBytes(oq.out)

TexelField(k) ==
    CASE k = 1 -> oq.word % 16
      [] k = 2 -> (oq.word \div 16) % 16
      [] k = 3 -> (oq.word \div 256) % 16
      [] k = 4 -> (oq.word \div 4096) % 16

\* C39: every byte of the unpacked word is the 4-bit field of the texel it
\* comes from with the nibble duplicated, n * 17
C39_NibbleDuplicated ==
    oq.st = "unpacked" => \A k \in 1..4 : UnpackedBytes[k] = TexelField(k) * 17

\* what ARGB4444_32 does: the field is the high nibble of the byte and the
\* low nibble is zero, n * 16
C39_NibbleShifted ==
    oq.st = "unpacked" => \A k \in 1..4 : UnpackedBytes[k] = TexelField(k) * 16

====
